---- MODULE Spec2Model ----
(***************************************************************************)
(* State-machine model of the wasm_vault lending lifecycle: the ledger     *)
(* store, the counter-offer book with eviction, open/close, fund, repay    *)
(* and liquidate.  Every entry point is one action; the host discards the  *)
(* writes of a call that returns an error.                                 *)
(***************************************************************************)
EXTENDS Integers, Sequences, FiniteSets, TLC

(* ------------------------------------------------------------------ *)
(* Program constants and model bounds                                  *)
(* ------------------------------------------------------------------ *)

\* state.rs: MAX_COUNTER_OFFERS = u8::MAX
MAX_COUNTER_OFFERS == 255

\* number of values of the u8 counter of snapshot_counter_offer_capacity
U8_RANGE == 256

\* Uint128::MAX and Uint256::MAX, scaled to 8 and 16 bits (TLC integers are
\* 32 bits wide); the scaling keeps Uint256::MAX > 255 * Uint128::MAX.
UINT128_MAX == 255

UINT256_MAX == 65535

\* addresses 1..NumActors send the calls of a behaviour
NumActors == 2

\* block time runs from 0 to MaxTime
MaxTime == 2

\* the liquidity amount of the posted terms (offers range below it)
MaxLiquidity == 3

\* the addresses above NumActors never send a call: they are the other
\* proposers of a full book, which holds NumActors..MaxAddr
MaxAddr == NumActors + MAX_COUNTER_OFFERS - 1

Actors == 1..NumActors

(* ------------------------------------------------------------------ *)
(* Option, Coin, OpenInterest                                          *)
(* ------------------------------------------------------------------ *)

None == <<>>

Some(x) == <<x>>

IsSome(o) == o # <<>>

Unwrap(o) == o[1]

Coin(a, d) == [denom |-> d, amount |-> a]

\* types.rs: struct OpenInterest
OpenInterest(liq, int, dur, col) ==
    [liquidity_coin |-> liq, interest_coin |-> int,
     expiry_duration |-> dur, collateral |-> col]

\* chain staking denom returned by query_bonded_denom
BondedDenom == "uatom"

Min(a, b) == IF a <= b THEN a ELSE b

(* ------------------------------------------------------------------ *)
(* Errors, messages and call results                                   *)
(* ------------------------------------------------------------------ *)

\* error.rs: ContractError; x and y carry the numeric fields of a variant
Err(kind, denom, x, y) == [kind |-> kind, denom |-> denom, x |-> x, y |-> y]

NoErr == Err("none", "", 0, 0)

E(kind) == Err(kind, "", 0, 0)

\* BankMsg::Send { to_address, amount }
BankSend(to, coins) == [kind |-> "send", to |-> to, coins |-> coins]

\* DistributionMsg::WithdrawDelegatorReward { validator }
WithdrawReward(validator) == [kind |-> "withdraw_reward", to |-> validator, coins |-> <<>>]

\* StakingMsg::Undelegate { validator, amount }
Undelegate(validator, coin) == [kind |-> "undelegate", to |-> validator, coins |-> <<coin>>]

\* Result<Response, ContractError> together with the storage as the call
\* left it when it returned
Ok(store, msgs) == [ok |-> TRUE, err |-> NoErr, store |-> store, msgs |-> msgs]

Fail(store, err) == [ok |-> FALSE, err |-> err, store |-> store, msgs |-> <<>>]

(* ------------------------------------------------------------------ *)
(* The counter-offer book: a map keyed by proposer address             *)
(* ------------------------------------------------------------------ *)

EmptyBook == [a \in {} |-> 0]

\* Map::save and Map::remove
BookSave(book, addr, offer) ==
    [a \in DOMAIN book \cup {addr} |-> IF a = addr THEN offer ELSE book[a]]

BookRemove(book, addr) == [a \in DOMAIN book \ {addr} |-> book[a]]

\* the first n keys among the addresses i..stop-1
RECURSIVE KeysBlock(_, _, _, _)
KeysBlock(book, i, stop, n) ==
    IF n = 0 \/ i >= stop THEN <<>>
    ELSE IF i \in DOMAIN book THEN <<i>> \o KeysBlock(book, i + 1, stop, n - 1)
    ELSE KeysBlock(book, i + 1, stop, n)

\* the n keys from address i upwards, gathered sixteen addresses at a time
RECURSIVE KeysFrom(_, _, _)
KeysFrom(book, i, n) ==
    IF n = 0 THEN <<>>
    ELSE LET block == KeysBlock(book, i, i + 16, n)
         IN  block \o KeysFrom(book, i + 16, n - Len(block))

\* COUNTER_OFFERS.range(storage, None, None, Order::Ascending): the keys
\* in ascending address order
RangeAscending(book) ==
    IF DOMAIN book = {} THEN <<>>
    ELSE KeysFrom(book, CHOOSE a \in DOMAIN book : \A b \in DOMAIN book : a <= b,
                  Cardinality(DOMAIN book))

(* ------------------------------------------------------------------ *)
(* counter_offer/helpers.rs                                            *)
(* ------------------------------------------------------------------ *)

\* a faulty validate_counter_offer: an offer of the posted amount is let
\* through
validate_counter_offer_allow_equal(active, proposed) ==
    IF \/ proposed.liquidity_coin.denom # active.liquidity_coin.denom
       \/ proposed.interest_coin # active.interest_coin
       \/ proposed.collateral # active.collateral
       \/ proposed.expiry_duration # active.expiry_duration
    THEN E("CounterOfferTermsMismatch")
    ELSE IF proposed.liquidity_coin.amount = 0
    THEN Err("InvalidCoinAmount", "liquidity_coin", 0, 0)
    ELSE IF proposed.liquidity_coin.amount > active.liquidity_coin.amount
    THEN E("CounterOfferNotSmaller")
    ELSE NoErr

validate_counter_offer(active, proposed) ==
    IF \/ proposed.liquidity_coin.denom # active.liquidity_coin.denom
       \/ proposed.interest_coin # active.interest_coin
       \/ proposed.collateral # active.collateral
       \/ proposed.expiry_duration # active.expiry_duration
    THEN E("CounterOfferTermsMismatch")
    ELSE IF proposed.liquidity_coin.amount = 0
    THEN Err("InvalidCoinAmount", "liquidity_coin", 0, 0)
    ELSE IF proposed.liquidity_coin.amount >= active.liquidity_coin.amount
    THEN E("CounterOfferNotSmaller")
    ELSE NoErr

RECURSIVE SumFunds(_, _, _)
SumFunds(funds, denom, i) ==
    IF i > Len(funds) THEN 0
    ELSE (IF funds[i].denom = denom THEN funds[i].amount ELSE 0)
         + SumFunds(funds, denom, i + 1)

\* info.funds.iter().filter(denom).fold(zero, +)
ReceivedFunds(funds, denom) == SumFunds(funds, denom, 1)

\* a faulty validate_counter_offer_escrow: an overpaid offer is let through
validate_counter_offer_escrow_at_least(funds, proposed) ==
    LET denom == proposed.liquidity_coin.denom
        expected == proposed.liquidity_coin.amount
        received == ReceivedFunds(funds, denom)
    IN  IF received > UINT256_MAX THEN E("panic")
        ELSE IF received < expected
        THEN Err("CounterOfferEscrowMismatch", denom, expected, received)
        ELSE NoErr

validate_counter_offer_escrow(funds, proposed) ==
    LET denom == proposed.liquidity_coin.denom
        expected == proposed.liquidity_coin.amount
        received == ReceivedFunds(funds, denom)
    IN  IF received > UINT256_MAX THEN E("panic")
        ELSE IF received # expected
        THEN Err("CounterOfferEscrowMismatch", denom, expected, received)
        ELSE NoErr

\* a faulty add_outstanding_debt: the debt is overwritten, not accumulated
add_outstanding_debt_overwrite(debt, coin) ==
    [err |-> NoErr, debt |-> Some(coin)]

\* returns the error and the debt to save
add_outstanding_debt(debt, coin) ==
    IF IsSome(debt)
    THEN IF Unwrap(debt).denom # coin.denom
         THEN [err |-> E("Outstanding debt denom mismatch"), debt |-> debt]
         ELSE IF Unwrap(debt).amount + coin.amount > UINT256_MAX
         THEN [err |-> E("overflow"), debt |-> debt]
         ELSE [err |-> NoErr,
               debt |-> Some(Coin(Unwrap(debt).amount + coin.amount, coin.denom))]
    ELSE [err |-> NoErr, debt |-> Some(coin)]

\* a faulty release_outstanding_debt: a debt released in full is stored as
\* a zero coin instead of None
release_outstanding_debt_keep_zero(debt, coin) ==
    IF ~IsSome(debt)
    THEN [err |-> E("No outstanding debt to release"), debt |-> debt]
    ELSE IF Unwrap(debt).denom # coin.denom
    THEN [err |-> E("Outstanding debt denom mismatch"), debt |-> debt]
    ELSE IF Unwrap(debt).amount < coin.amount
    THEN [err |-> E("overflow"), debt |-> debt]
    ELSE [err |-> NoErr,
          debt |-> Some(Coin(Unwrap(debt).amount - coin.amount, coin.denom))]

release_outstanding_debt(debt, coin) ==
    IF ~IsSome(debt)
    THEN [err |-> E("No outstanding debt to release"), debt |-> debt]
    ELSE IF Unwrap(debt).denom # coin.denom
    THEN [err |-> E("Outstanding debt denom mismatch"), debt |-> debt]
    ELSE IF Unwrap(debt).amount < coin.amount
    THEN [err |-> E("overflow"), debt |-> debt]
    ELSE IF Unwrap(debt).amount - coin.amount = 0
    THEN [err |-> NoErr, debt |-> None]
    ELSE [err |-> NoErr,
          debt |-> Some(Coin(Unwrap(debt).amount - coin.amount, coin.denom))]

\* a faulty SnapshotStep: the comparison is reversed, so the scan keeps the
\* entry holding the greatest amount
SnapshotStep_largest(book, acc, addr) ==
    IF acc.panic THEN acc
    ELSE IF acc.count + 1 >= U8_RANGE THEN [acc EXCEPT !.panic = TRUE]
    ELSE LET amount == book[addr].liquidity_coin.amount
             worst_amount == book[acc.worst].liquidity_coin.amount
             should_replace == amount > worst_amount
         IN  [panic |-> FALSE, count |-> acc.count + 1,
              worst |-> IF should_replace THEN addr ELSE acc.worst]

\* a faulty SnapshotStep: an entry equal to the least one replaces it, so
\* the scan keeps the last of the tied entries
SnapshotStep_last_tied(book, acc, addr) ==
    IF acc.panic THEN acc
    ELSE IF acc.count + 1 >= U8_RANGE THEN [acc EXCEPT !.panic = TRUE]
    ELSE LET amount == book[addr].liquidity_coin.amount
             worst_amount == book[acc.worst].liquidity_coin.amount
             should_replace == amount <= worst_amount
         IN  [panic |-> FALSE, count |-> acc.count + 1,
              worst |-> IF should_replace THEN addr ELSE acc.worst]

\* one iteration of the loop over the entries after the first
SnapshotStep(book, acc, addr) ==
    IF acc.panic THEN acc
    ELSE IF acc.count + 1 >= U8_RANGE THEN [acc EXCEPT !.panic = TRUE]
    ELSE LET amount == book[addr].liquidity_coin.amount
             worst_amount == book[acc.worst].liquidity_coin.amount
             should_replace == amount < worst_amount
         IN  [panic |-> FALSE, count |-> acc.count + 1,
              worst |-> IF should_replace THEN addr ELSE acc.worst]

\* the loop over keys[lo..hi], left to right (split in halves to bound the
\* depth of the evaluation)
RECURSIVE SnapshotScan(_, _, _, _, _)
SnapshotScan(book, keys, lo, hi, acc) ==
    IF lo > hi THEN acc
    ELSE IF lo = hi THEN SnapshotStep(book, acc, keys[lo])
    ELSE LET left == SnapshotScan(book, keys, lo, (lo + hi) \div 2, acc)
         IN  IF left.panic THEN left
             ELSE SnapshotScan(book, keys, (lo + hi) \div 2 + 1, hi, left)

\* one pass in ascending key order: the number of entries (a u8, whose
\* overflow aborts the call) and the first entry holding the least amount
snapshot_counter_offer_capacity(book) ==
    LET keys == RangeAscending(book)
    IN  IF keys = <<>> THEN [panic |-> FALSE, count |-> 0, worst |-> 0]
        ELSE SnapshotScan(book, keys, 2, Len(keys),
                          [panic |-> FALSE, count |-> 1, worst |-> keys[1]])

\* a faulty determine_eviction_candidate: the capacity test is off by one,
\* so a full book still takes an entry without evicting
determine_eviction_candidate_no_cap(book, proposed) ==
    LET snapshot == snapshot_counter_offer_capacity(book)
        max_capacity == MAX_COUNTER_OFFERS
    IN  IF snapshot.panic THEN [err |-> E("panic"), evict |-> 0]
        ELSE IF snapshot.count = 0 THEN [err |-> NoErr, evict |-> 0]
        ELSE IF snapshot.count <= max_capacity THEN [err |-> NoErr, evict |-> 0]
        ELSE LET new_amount == proposed.liquidity_coin.amount
                 worst_amount == book[snapshot.worst].liquidity_coin.amount
                 new_is_worse == new_amount <= worst_amount
             IN  IF new_is_worse
                 THEN [err |-> Err("CounterOfferNotCompetitive",
                                   proposed.liquidity_coin.denom, worst_amount, 0),
                       evict |-> 0]
                 ELSE [err |-> NoErr, evict |-> snapshot.worst]

\* a faulty determine_eviction_candidate: an offer equal to the least one
\* counts as competitive
determine_eviction_candidate_strict(book, proposed) ==
    LET snapshot == snapshot_counter_offer_capacity(book)
        max_capacity == MAX_COUNTER_OFFERS
    IN  IF snapshot.panic THEN [err |-> E("panic"), evict |-> 0]
        ELSE IF snapshot.count = 0 THEN [err |-> NoErr, evict |-> 0]
        ELSE IF snapshot.count < max_capacity THEN [err |-> NoErr, evict |-> 0]
        ELSE LET new_amount == proposed.liquidity_coin.amount
                 worst_amount == book[snapshot.worst].liquidity_coin.amount
                 new_is_worse == new_amount < worst_amount
             IN  IF new_is_worse
                 THEN [err |-> Err("CounterOfferNotCompetitive",
                                   proposed.liquidity_coin.denom, worst_amount, 0),
                       evict |-> 0]
                 ELSE [err |-> NoErr, evict |-> snapshot.worst]

\* evict = 0: no eviction; otherwise the address to evict
determine_eviction_candidate(book, proposed) ==
    LET snapshot == snapshot_counter_offer_capacity(book)
        max_capacity == MAX_COUNTER_OFFERS
    IN  IF snapshot.panic THEN [err |-> E("panic"), evict |-> 0]
        ELSE IF snapshot.count = 0 THEN [err |-> NoErr, evict |-> 0]
        ELSE IF snapshot.count < max_capacity THEN [err |-> NoErr, evict |-> 0]
        ELSE LET new_amount == proposed.liquidity_coin.amount
                 worst_amount == book[snapshot.worst].liquidity_coin.amount
                 new_is_worse == new_amount <= worst_amount
             IN  IF new_is_worse
                 THEN [err |-> Err("CounterOfferNotCompetitive",
                                   proposed.liquidity_coin.denom, worst_amount, 0),
                       evict |-> 0]
                 ELSE [err |-> NoErr, evict |-> snapshot.worst]

(* ------------------------------------------------------------------ *)
(* counter_offer/propose.rs, cancel.rs, accept.rs                      *)
(* ------------------------------------------------------------------ *)

\* st is the ledger store: owner, lender, outstanding_debt, open_interest,
\* open_interest_expiry, counter_offers
propose(st, sender, funds, proposed_interest) ==
    IF ~IsSome(st.open_interest) THEN Fail(st, E("NoOpenInterest"))
    ELSE IF IsSome(st.lender) THEN Fail(st, E("LenderAlreadySet"))
    ELSE LET active_interest == Unwrap(st.open_interest)
             v1 == validate_counter_offer(active_interest, proposed_interest)
             v2 == validate_counter_offer_escrow(funds, proposed_interest)
         IN
         IF v1 # NoErr THEN Fail(st, v1)
         ELSE IF v2 # NoErr THEN Fail(st, v2)
         ELSE IF sender \in DOMAIN st.counter_offers
         THEN Fail(st, E("CounterOfferAlreadyExists"))
         ELSE
         LET cand == determine_eviction_candidate(st.counter_offers, proposed_interest)
         IN
         IF cand.err # NoErr THEN Fail(st, cand.err)
         ELSE
         LET evicting == cand.evict # 0
             removed == IF evicting THEN BookRemove(st.counter_offers, cand.evict)
                        ELSE st.counter_offers
             released == IF evicting
                         THEN release_outstanding_debt(st.outstanding_debt,
                                  st.counter_offers[cand.evict].liquidity_coin)
                         ELSE [err |-> NoErr, debt |-> st.outstanding_debt]
             st1 == [st EXCEPT !.counter_offers = removed]
             st2 == [st1 EXCEPT !.outstanding_debt = released.debt]
             added == add_outstanding_debt(st2.outstanding_debt,
                                           proposed_interest.liquidity_coin)
             st3 == [st2 EXCEPT !.outstanding_debt = added.debt]
             st4 == [st3 EXCEPT !.counter_offers =
                         BookSave(st3.counter_offers, sender, proposed_interest)]
         IN
         IF released.err # NoErr THEN Fail(st1, released.err)
         ELSE IF added.err # NoErr THEN Fail(st2, added.err)
         ELSE Ok(st4, IF evicting
                      THEN <<BankSend(cand.evict,
                                <<st.counter_offers[cand.evict].liquidity_coin>>)>>
                      ELSE <<>>)

\* a faulty cancel: the escrow is refunded but the debt is not released
cancel_keep_debt(st, sender) ==
    IF ~IsSome(st.open_interest) THEN Fail(st, E("NoOpenInterest"))
    ELSE IF sender \notin DOMAIN st.counter_offers
    THEN Fail(st, Err("CounterOfferNotFound", "", sender, 0))
    ELSE LET stored_offer == st.counter_offers[sender]
             st2 == [st EXCEPT !.counter_offers = BookRemove(st.counter_offers, sender)]
         IN  Ok(st2, <<BankSend(sender, <<stored_offer.liquidity_coin>>)>>)

cancel(st, sender) ==
    IF ~IsSome(st.open_interest) THEN Fail(st, E("NoOpenInterest"))
    ELSE IF sender \notin DOMAIN st.counter_offers
    THEN Fail(st, Err("CounterOfferNotFound", "", sender, 0))
    ELSE LET stored_offer == st.counter_offers[sender]
             released == release_outstanding_debt(st.outstanding_debt,
                                                  stored_offer.liquidity_coin)
             st1 == [st EXCEPT !.outstanding_debt = released.debt]
             st2 == [st1 EXCEPT !.counter_offers = BookRemove(st.counter_offers, sender)]
         IN  IF released.err # NoErr THEN Fail(st, released.err)
             ELSE Ok(st2, <<BankSend(sender, <<stored_offer.liquidity_coin>>)>>)

\* a faulty RefundsOf: the last proposer of the scan is left without refund
RefundsOf_all_but_last(book, keys) ==
    [i \in 1..(Len(keys) - 1) |-> BankSend(keys[i], <<book[keys[i]].liquidity_coin>>)]

\* one BankMsg::Send per key, in the order of keys
RefundsOf(book, keys) ==
    [i \in 1..Len(keys) |-> BankSend(keys[i], <<book[keys[i]].liquidity_coin>>)]

\* a faulty RefundsExcept: the accepted proposer is refunded too
RefundsExcept_nobody(book, keys, skip) == RefundsOf(book, keys)

\* offers.into_iter().filter_map(addr == lender_addr => None)
RefundsExcept(book, keys, skip) ==
    LET Kept(a) == a # skip IN RefundsOf(book, SelectSeq(keys, Kept))

\* a faulty accept: the posted terms stay in force instead of the accepted
\* offer
accept_keep_terms(st, sender, proposer, expected_interest) ==
    IF sender # st.owner THEN Fail(st, E("Unauthorized"))
    ELSE IF ~IsSome(st.open_interest) THEN Fail(st, E("NoOpenInterest"))
    ELSE IF IsSome(st.lender) THEN Fail(st, E("LenderAlreadySet"))
    ELSE IF proposer \notin DOMAIN st.counter_offers
    THEN Fail(st, Err("CounterOfferNotFound", "", proposer, 0))
    ELSE LET lender_addr == proposer
             accepted_offer == st.counter_offers[lender_addr]
             refunds == RefundsExcept(st.counter_offers,
                                      RangeAscending(st.counter_offers), lender_addr)
             st1 == [st EXCEPT !.counter_offers = EmptyBook,
                               !.lender = Some(lender_addr),
                               !.outstanding_debt = None]
         IN  IF accepted_offer # expected_interest
             THEN Fail(st, Err("CounterOfferMismatch", "", proposer, 0))
             ELSE Ok(st1, refunds)

\* a faulty accept: the expected offer is not compared with the stored one
accept_any_payload(st, sender, proposer, expected_interest) ==
    IF sender # st.owner THEN Fail(st, E("Unauthorized"))
    ELSE IF ~IsSome(st.open_interest) THEN Fail(st, E("NoOpenInterest"))
    ELSE IF IsSome(st.lender) THEN Fail(st, E("LenderAlreadySet"))
    ELSE IF proposer \notin DOMAIN st.counter_offers
    THEN Fail(st, Err("CounterOfferNotFound", "", proposer, 0))
    ELSE LET lender_addr == proposer
             accepted_offer == st.counter_offers[lender_addr]
             refunds == RefundsExcept(st.counter_offers,
                                      RangeAscending(st.counter_offers), lender_addr)
             st1 == [st EXCEPT !.counter_offers = EmptyBook,
                               !.lender = Some(lender_addr),
                               !.open_interest = Some(accepted_offer),
                               !.outstanding_debt = None]
         IN  Ok(st1, refunds)

\* a faulty accept: the escrow debt of the book is left in place
accept_keep_debt(st, sender, proposer, expected_interest) ==
    IF sender # st.owner THEN Fail(st, E("Unauthorized"))
    ELSE IF ~IsSome(st.open_interest) THEN Fail(st, E("NoOpenInterest"))
    ELSE IF IsSome(st.lender) THEN Fail(st, E("LenderAlreadySet"))
    ELSE IF proposer \notin DOMAIN st.counter_offers
    THEN Fail(st, Err("CounterOfferNotFound", "", proposer, 0))
    ELSE LET lender_addr == proposer
             accepted_offer == st.counter_offers[lender_addr]
             refunds == RefundsExcept(st.counter_offers,
                                      RangeAscending(st.counter_offers), lender_addr)
             st1 == [st EXCEPT !.counter_offers = EmptyBook,
                               !.lender = Some(lender_addr),
                               !.open_interest = Some(accepted_offer)]
         IN  IF accepted_offer # expected_interest
             THEN Fail(st, Err("CounterOfferMismatch", "", proposer, 0))
             ELSE Ok(st1, refunds)

accept(st, sender, proposer, expected_interest) ==
    IF sender # st.owner THEN Fail(st, E("Unauthorized"))
    ELSE IF ~IsSome(st.open_interest) THEN Fail(st, E("NoOpenInterest"))
    ELSE IF IsSome(st.lender) THEN Fail(st, E("LenderAlreadySet"))
    ELSE IF proposer \notin DOMAIN st.counter_offers
    THEN Fail(st, Err("CounterOfferNotFound", "", proposer, 0))
    ELSE LET lender_addr == proposer
             accepted_offer == st.counter_offers[lender_addr]
             refunds == RefundsExcept(st.counter_offers,
                                      RangeAscending(st.counter_offers), lender_addr)
             st1 == [st EXCEPT !.counter_offers = EmptyBook,
                               !.lender = Some(lender_addr),
                               !.open_interest = Some(accepted_offer),
                               !.outstanding_debt = None]
         IN  IF accepted_offer # expected_interest
             THEN Fail(st, Err("CounterOfferMismatch", "", proposer, 0))
             ELSE Ok(st1, refunds)

(* ------------------------------------------------------------------ *)
(* helpers.rs and open_interest/helpers.rs                             *)
(* ------------------------------------------------------------------ *)

\* byte order of the denoms, the key order of the BTreeMap of
\* repayment_requirements
DenomOrder == <<"", "uatom", "ucol", "ujuno", "uusd">>

DenomRank(d) == CHOOSE i \in 1..Len(DenomOrder) : DenomOrder[i] = d

\* a faulty require_owner: the bound lender passes as well
require_owner_lenient(st, sender) ==
    IF sender = st.owner THEN NoErr
    ELSE IF IsSome(st.lender) /\ sender = Unwrap(st.lender) THEN NoErr
    ELSE E("Unauthorized")

require_owner(st, sender) == IF sender # st.owner THEN E("Unauthorized") ELSE NoErr

require_owner_or_lender(st, sender) ==
    IF sender = st.owner THEN NoErr
    ELSE IF IsSome(st.lender) /\ sender = Unwrap(st.lender) THEN NoErr
    ELSE E("Unauthorized")

RECURSIVE SumCoins(_, _)
SumCoins(coins, i) ==
    IF i > Len(coins) THEN 0 ELSE coins[i].amount + SumCoins(coins, i + 1)

RECURSIVE SumCoinsOf(_, _, _)
SumCoinsOf(coins, denom, i) ==
    IF i > Len(coins) THEN 0
    ELSE (IF coins[i].denom = denom THEN coins[i].amount ELSE 0)
         + SumCoinsOf(coins, denom, i + 1)

\* env.rewards is the list of reward coins of query_delegation_total_rewards
query_staking_rewards(env) == SumCoins(env.rewards, 1)

query_staking_rewards_for_denom(env, denom) == SumCoinsOf(env.rewards, denom, 1)

RECURSIVE SumStakes(_, _, _)
SumStakes(delegations, denom, i) ==
    IF i > Len(delegations) THEN 0
    ELSE (IF delegations[i].amount.denom = denom
          THEN delegations[i].amount.amount ELSE 0)
         + SumStakes(delegations, denom, i + 1)

query_staked_balance(env, denom) == SumStakes(env.delegations, denom, 1)

saturating_sub(a, b) == IF a >= b THEN a - b ELSE 0

\* a faulty ensure_collateral_available: rewards and stake are counted for
\* every collateral denom
minimum_collateral_lock_for_denom_any_denom(env, denom, interest) ==
    IF interest.collateral.denom # denom THEN 0
    ELSE LET rewards == query_staking_rewards(env)
             staked == query_staked_balance(env, BondedDenom)
             coverage == rewards + staked
         IN  saturating_sub(interest.collateral.amount, coverage)

minimum_collateral_lock_for_denom(env, denom, interest) ==
    IF interest.collateral.denom # denom THEN 0
    ELSE IF denom # BondedDenom THEN interest.collateral.amount
    ELSE LET rewards == query_staking_rewards(env)
             staked == query_staked_balance(env, denom)
             coverage == rewards + staked
         IN  saturating_sub(interest.collateral.amount, coverage)

query_available_balance(env, denom) == env.balance[denom]

validate_coin(coin, field) ==
    IF coin.amount = 0 THEN Err("InvalidCoinAmount", field, 0, 0)
    ELSE IF coin.denom = "" THEN Err("InvalidCoinDenom", field, 0, 0)
    ELSE NoErr

ensure_collateral_available(env, open_interest) ==
    LET denom == open_interest.collateral.denom
        requested == open_interest.collateral.amount
        available == query_available_balance(env, denom)
        required_lock == minimum_collateral_lock_for_denom(env, denom, open_interest)
        staking_coverage == saturating_sub(requested, required_lock)
        effective_balance == available + staking_coverage
    IN  IF available >= requested THEN NoErr
        ELSE IF available >= required_lock THEN NoErr
        ELSE IF effective_balance > UINT256_MAX THEN E("overflow")
        ELSE IF effective_balance >= requested THEN NoErr
        ELSE Err("InsufficientBalance", denom, effective_balance, requested)

\* a faulty repayment_requirements: the interest is left out
repayment_requirements_principal_only(open_interest) ==
    [err |-> NoErr, reqs |-> <<open_interest.liquidity_coin>>]

\* the per-denom totals in BTreeMap (denom) order, or the error
repayment_requirements(open_interest) ==
    LET l == open_interest.liquidity_coin
        i == open_interest.interest_coin
    IN  IF l.denom = i.denom
        THEN IF l.amount + i.amount > UINT256_MAX
             THEN [err |-> E("repayment amount overflow"), reqs |-> <<>>]
             ELSE [err |-> NoErr, reqs |-> <<Coin(l.amount + i.amount, l.denom)>>]
        ELSE IF DenomRank(l.denom) < DenomRank(i.denom)
        THEN [err |-> NoErr, reqs |-> <<l, i>>]
        ELSE [err |-> NoErr, reqs |-> <<i, l>>]

build_repayment_amounts(open_interest) ==
    LET r == repayment_requirements(open_interest)
        over == {k \in 1..Len(r.reqs) : r.reqs[k].amount > UINT128_MAX}
        first == CHOOSE k \in over : \A j \in over : k <= j
    IN  IF r.err # NoErr THEN r
        ELSE IF over # {}
        THEN [err |-> Err("RepaymentAmountOverflow", r.reqs[first].denom,
                          r.reqs[first].amount, 0),
              reqs |-> <<>>]
        ELSE r

validate_open_interest(env, open_interest) ==
    LET c1 == validate_coin(open_interest.liquidity_coin, "liquidity_coin")
        c2 == validate_coin(open_interest.interest_coin, "interest_coin")
        c3 == validate_coin(open_interest.collateral, "collateral")
    IN  IF c1 # NoErr THEN c1
        ELSE IF c2 # NoErr THEN c2
        ELSE IF c3 # NoErr THEN c3
        ELSE IF open_interest.expiry_duration = 0 THEN E("InvalidExpiryDuration")
        ELSE IF build_repayment_amounts(open_interest).err # NoErr
        THEN build_repayment_amounts(open_interest).err
        ELSE ensure_collateral_available(env, open_interest)

\* a faulty validate_liquidity_funding: an overpayment is let through
validate_liquidity_funding_at_least(funds, liquidity_coin) ==
    LET denom == liquidity_coin.denom
        expected == liquidity_coin.amount
        received == ReceivedFunds(funds, denom)
    IN  IF received > UINT256_MAX THEN E("panic")
        ELSE IF received < expected
        THEN Err("OpenInterestFundingMismatch", denom, expected, received)
        ELSE NoErr

validate_liquidity_funding(funds, liquidity_coin) ==
    LET denom == liquidity_coin.denom
        expected == liquidity_coin.amount
        received == ReceivedFunds(funds, denom)
    IN  IF received > UINT256_MAX THEN E("panic")
        ELSE IF received # expected
        THEN Err("OpenInterestFundingMismatch", denom, expected, received)
        ELSE NoErr

\* a faulty refund_counter_offer_escrow: the refunds are issued but the
\* book is not cleared
refund_counter_offer_escrow_keep_book(st) ==
    [msgs |-> RefundsOf(st.counter_offers, RangeAscending(st.counter_offers)),
     store |-> [st EXCEPT !.outstanding_debt = None]]

\* returns the refund messages and the store with the book and debt cleared
refund_counter_offer_escrow(st) ==
    [msgs |-> RefundsOf(st.counter_offers, RangeAscending(st.counter_offers)),
     store |-> [st EXCEPT !.counter_offers = EmptyBook, !.outstanding_debt = None]]

\* a faulty set_active_lender: the expiry is not recorded
set_active_lender_no_expiry(st, lender, expiry) ==
    [st EXCEPT !.lender = Some(lender)]

set_active_lender(st, lender, expiry) ==
    [st EXCEPT !.lender = Some(lender), !.open_interest_expiry = Some(expiry)]

clear_active_lender(st) ==
    [st EXCEPT !.lender = None, !.open_interest_expiry = None]

(* ------------------------------------------------------------------ *)
(* open_interest/execute.rs, close.rs, fund.rs, repay.rs               *)
(* ------------------------------------------------------------------ *)

\* a faulty open: stored terms are replaced
open_interest_execute_replace(st, env, sender, open_interest) ==
    IF sender # st.owner THEN Fail(st, E("Unauthorized"))
    ELSE IF validate_open_interest(env, open_interest) # NoErr
    THEN Fail(st, validate_open_interest(env, open_interest))
    ELSE Ok([st EXCEPT !.open_interest = Some(open_interest),
                       !.counter_offers = EmptyBook], <<>>)

\* open_interest::execute
open_interest_execute(st, env, sender, open_interest) ==
    IF sender # st.owner THEN Fail(st, E("Unauthorized"))
    ELSE IF IsSome(st.open_interest) THEN Fail(st, E("OpenInterestAlreadyExists"))
    ELSE IF validate_open_interest(env, open_interest) # NoErr
    THEN Fail(st, validate_open_interest(env, open_interest))
    ELSE Ok([st EXCEPT !.open_interest = Some(open_interest),
                       !.counter_offers = EmptyBook], <<>>)

\* a faulty close: the offers are refunded but the open interest stays
close_keep_interest(st, sender) ==
    IF sender # st.owner THEN Fail(st, E("Unauthorized"))
    ELSE IF IsSome(st.lender) THEN Fail(st, E("LenderAlreadySet"))
    ELSE IF ~IsSome(st.open_interest) THEN Fail(st, E("NoOpenInterest"))
    ELSE LET refund == refund_counter_offer_escrow(st)
         IN  Ok(refund.store, refund.msgs)

close(st, sender) ==
    IF sender # st.owner THEN Fail(st, E("Unauthorized"))
    ELSE IF IsSome(st.lender) THEN Fail(st, E("LenderAlreadySet"))
    ELSE IF ~IsSome(st.open_interest) THEN Fail(st, E("NoOpenInterest"))
    ELSE LET st1 == [st EXCEPT !.open_interest = None]
             refund == refund_counter_offer_escrow(st1)
         IN  Ok(refund.store, refund.msgs)

\* a faulty fund: the lender is bound before the attached funds are checked
fund_bind_before_check(st, env, sender, funds, expected_interest) ==
    IF ~IsSome(st.open_interest) THEN Fail(st, E("NoOpenInterest"))
    ELSE IF IsSome(st.lender) THEN Fail(st, E("LenderAlreadySet"))
    ELSE IF Unwrap(st.open_interest) # expected_interest
    THEN Fail(st, E("OpenInterestMismatch"))
    ELSE LET open_interest == Unwrap(st.open_interest)
             v == validate_liquidity_funding(funds, open_interest.liquidity_coin)
             st1 == set_active_lender(st, sender, env.time + open_interest.expiry_duration)
             refund == refund_counter_offer_escrow(st1)
         IN  IF v # NoErr THEN Fail(st1, v)
             ELSE Ok(refund.store, refund.msgs)

fund(st, env, sender, funds, expected_interest) ==
    IF ~IsSome(st.open_interest) THEN Fail(st, E("NoOpenInterest"))
    ELSE IF IsSome(st.lender) THEN Fail(st, E("LenderAlreadySet"))
    ELSE IF Unwrap(st.open_interest) # expected_interest
    THEN Fail(st, E("OpenInterestMismatch"))
    ELSE LET open_interest == Unwrap(st.open_interest)
             v == validate_liquidity_funding(funds, open_interest.liquidity_coin)
             lender == sender
             expiry == env.time + open_interest.expiry_duration
             st1 == set_active_lender(st, lender, expiry)
             refund == refund_counter_offer_escrow(st1)
         IN  IF v # NoErr THEN Fail(st, v)
             ELSE Ok(refund.store, refund.msgs)

\* the first denom of the repayment whose balance is short, 0 if none
FirstShort(env, reqs) ==
    LET short == {k \in 1..Len(reqs) : env.balance[reqs[k].denom] < reqs[k].amount}
    IN  IF short = {} THEN 0 ELSE CHOOSE k \in short : \A j \in short : k <= j

\* a faulty repay: stored debt does not stop the repayment
repay_ignoring_debt(st, env, sender) ==
    IF require_owner(st, sender) # NoErr THEN Fail(st, require_owner(st, sender))
    ELSE IF ~IsSome(st.open_interest) THEN Fail(st, E("NoOpenInterest"))
    ELSE IF ~IsSome(st.lender) THEN Fail(st, E("NoLender"))
    ELSE LET open_interest == Unwrap(st.open_interest)
             lender == Unwrap(st.lender)
             repayment_amounts == build_repayment_amounts(open_interest)
             k == FirstShort(env, repayment_amounts.reqs)
             st1 == [st EXCEPT !.open_interest = None, !.lender = None,
                               !.open_interest_expiry = None]
         IN  IF repayment_amounts.err # NoErr THEN Fail(st, repayment_amounts.err)
             ELSE IF k # 0
             THEN Fail(st, Err("InsufficientBalance", repayment_amounts.reqs[k].denom,
                               env.balance[repayment_amounts.reqs[k].denom],
                               repayment_amounts.reqs[k].amount))
             ELSE Ok(st1, <<BankSend(lender, repayment_amounts.reqs)>>)

\* a faulty repay: the expiry of the repaid loan stays stored
repay_keep_expiry(st, env, sender) ==
    IF require_owner(st, sender) # NoErr THEN Fail(st, require_owner(st, sender))
    ELSE IF IsSome(st.outstanding_debt)
    THEN Fail(st, Err("OutstandingDebt", Unwrap(st.outstanding_debt).denom,
                      Unwrap(st.outstanding_debt).amount, 0))
    ELSE IF ~IsSome(st.open_interest) THEN Fail(st, E("NoOpenInterest"))
    ELSE IF ~IsSome(st.lender) THEN Fail(st, E("NoLender"))
    ELSE LET open_interest == Unwrap(st.open_interest)
             lender == Unwrap(st.lender)
             repayment_amounts == build_repayment_amounts(open_interest)
             k == FirstShort(env, repayment_amounts.reqs)
             st1 == [st EXCEPT !.open_interest = None, !.lender = None]
         IN  IF repayment_amounts.err # NoErr THEN Fail(st, repayment_amounts.err)
             ELSE IF k # 0
             THEN Fail(st, Err("InsufficientBalance", repayment_amounts.reqs[k].denom,
                               env.balance[repayment_amounts.reqs[k].denom],
                               repayment_amounts.reqs[k].amount))
             ELSE Ok(st1, <<BankSend(lender, repayment_amounts.reqs)>>)

repay(st, env, sender) ==
    IF require_owner(st, sender) # NoErr THEN Fail(st, require_owner(st, sender))
    ELSE IF IsSome(st.outstanding_debt)
    THEN Fail(st, Err("OutstandingDebt", Unwrap(st.outstanding_debt).denom,
                      Unwrap(st.outstanding_debt).amount, 0))
    ELSE IF ~IsSome(st.open_interest) THEN Fail(st, E("NoOpenInterest"))
    ELSE IF ~IsSome(st.lender) THEN Fail(st, E("NoLender"))
    ELSE LET open_interest == Unwrap(st.open_interest)
             lender == Unwrap(st.lender)
             repayment_amounts == build_repayment_amounts(open_interest)
             k == FirstShort(env, repayment_amounts.reqs)
             st1 == [st EXCEPT !.open_interest = None, !.lender = None,
                               !.open_interest_expiry = None]
         IN  IF repayment_amounts.err # NoErr THEN Fail(st, repayment_amounts.err)
             ELSE IF k # 0
             THEN Fail(st, Err("InsufficientBalance", repayment_amounts.reqs[k].denom,
                               env.balance[repayment_amounts.reqs[k].denom],
                               repayment_amounts.reqs[k].amount))
             ELSE Ok(st1, <<BankSend(lender, repayment_amounts.reqs)>>)

(* ------------------------------------------------------------------ *)
(* open_interest/liquidate.rs                                          *)
(* ------------------------------------------------------------------ *)

\* a faulty LiquidationContext::load: a call at exactly the expiry is
\* turned down
LiquidationContext_load_after(st, env, sender) ==
    IF require_owner_or_lender(st, sender) # NoErr
    THEN require_owner_or_lender(st, sender)
    ELSE IF ~IsSome(st.open_interest) THEN E("NoOpenInterest")
    ELSE IF ~IsSome(st.lender) THEN E("NoLender")
    ELSE IF ~IsSome(st.open_interest_expiry)
    THEN E("open interest expiry missing despite lender being set")
    ELSE IF env.time <= Unwrap(st.open_interest_expiry)
    THEN E("OpenInterestNotExpired")
    ELSE NoErr

\* LiquidationContext::load: the error of the entry checks
LiquidationContext_load(st, env, sender) ==
    IF require_owner_or_lender(st, sender) # NoErr
    THEN require_owner_or_lender(st, sender)
    ELSE IF ~IsSome(st.open_interest) THEN E("NoOpenInterest")
    ELSE IF ~IsSome(st.lender) THEN E("NoLender")
    ELSE IF ~IsSome(st.open_interest_expiry)
    THEN E("open interest expiry missing despite lender being set")
    ELSE IF env.time < Unwrap(st.open_interest_expiry)
    THEN E("OpenInterestNotExpired")
    ELSE NoErr

\* a faulty get_outstanding_amount: the whole collateral is owed again at
\* every attempt
get_outstanding_amount_full_collateral(st) ==
    [err |-> NoErr, amount |-> Unwrap(st.open_interest).collateral.amount]

get_outstanding_amount(st) ==
    LET denom == Unwrap(st.open_interest).collateral.denom
    IN  IF IsSome(st.outstanding_debt)
        THEN IF Unwrap(st.outstanding_debt).denom # denom
             THEN [err |-> E("Outstanding debt denom mismatch"), amount |-> 0]
             ELSE [err |-> NoErr, amount |-> Unwrap(st.outstanding_debt).amount]
        ELSE [err |-> NoErr, amount |-> Unwrap(st.open_interest).collateral.amount]

\* a faulty is_bonded: every collateral is taken for stakeable
is_bonded_always(st) == TRUE

is_bonded(st) == Unwrap(st.open_interest).collateral.denom = BondedDenom

RECURSIVE RewardClaims(_, _)
RewardClaims(delegations, i) ==
    IF i > Len(delegations) THEN <<>>
    ELSE <<WithdrawReward(delegations[i].validator)>> \o RewardClaims(delegations, i + 1)

\* a faulty collect_funds: rewards are claimed even when the balance covers
\* the amount owed
collect_funds_always_claim(st, env, remaining) ==
    LET denom == Unwrap(st.open_interest).collateral.denom
        balance == env.balance[denom]
        reward_amount == query_staking_rewards_for_denom(env, denom)
    IN  IF is_bonded(st)
        THEN [err |-> IF balance + reward_amount > UINT256_MAX
                      THEN E("liquidation total available overflow") ELSE NoErr,
              available |-> balance + reward_amount,
              rewards_claimed |-> reward_amount,
              reward_claim_messages |->
                  IF reward_amount # 0 THEN RewardClaims(env.delegations, 1) ELSE <<>>]
        ELSE [err |-> NoErr, available |-> balance, rewards_claimed |-> 0,
              reward_claim_messages |-> <<>>]

\* a faulty collect_funds: withdrawals are returned though no reward is
\* claimable
collect_funds_claim_on_zero(st, env, remaining) ==
    LET denom == Unwrap(st.open_interest).collateral.denom
        balance == env.balance[denom]
        reward_amount == query_staking_rewards_for_denom(env, denom)
    IN  IF is_bonded(st) /\ balance < remaining
        THEN [err |-> IF balance + reward_amount > UINT256_MAX
                      THEN E("liquidation total available overflow") ELSE NoErr,
              available |-> balance + reward_amount,
              rewards_claimed |-> reward_amount,
              reward_claim_messages |-> RewardClaims(env.delegations, 1)]
        ELSE [err |-> NoErr, available |-> balance, rewards_claimed |-> 0,
              reward_claim_messages |-> <<>>]

collect_funds(st, env, remaining) ==
    LET denom == Unwrap(st.open_interest).collateral.denom
        balance == env.balance[denom]
        reward_amount == query_staking_rewards_for_denom(env, denom)
    IN  IF is_bonded(st) /\ balance < remaining
        THEN [err |-> IF balance + reward_amount > UINT256_MAX
                      THEN E("liquidation total available overflow") ELSE NoErr,
              available |-> balance + reward_amount,
              rewards_claimed |-> reward_amount,
              reward_claim_messages |->
                  IF reward_amount # 0 THEN RewardClaims(env.delegations, 1) ELSE <<>>]
        ELSE [err |-> NoErr, available |-> balance, rewards_claimed |-> 0,
              reward_claim_messages |-> <<>>]

payout_message(st, payout_amount) ==
    LET denom == Unwrap(st.open_interest).collateral.denom
    IN  IF payout_amount > UINT128_MAX
        THEN [err |-> Err("LiquidationAmountOverflow", denom, payout_amount, 0),
              msg |-> <<>>]
        ELSE [err |-> NoErr,
              msg |-> <<BankSend(Unwrap(st.lender), <<Coin(payout_amount, denom)>>)>>]

RECURSIVE UndelegateScan(_, _, _, _, _)
UndelegateScan(denom, delegations, i, remaining_to_undelegate, undelegated) ==
    IF i > Len(delegations) \/ remaining_to_undelegate = 0
    THEN [err |-> NoErr, msgs |-> <<>>, undelegated |-> undelegated]
    ELSE LET stake_amount == delegations[i].amount.amount
             amount == Min(stake_amount, remaining_to_undelegate)
             rest == UndelegateScan(denom, delegations, i + 1,
                                    remaining_to_undelegate - amount,
                                    undelegated + amount)
         IN  IF stake_amount = 0
             THEN UndelegateScan(denom, delegations, i + 1,
                                 remaining_to_undelegate, undelegated)
             ELSE IF amount > UINT128_MAX
             THEN [err |-> Err("UndelegationAmountOverflow", denom, amount, 0),
                   msgs |-> <<>>, undelegated |-> undelegated]
             ELSE [rest EXCEPT !.msgs =
                       <<Undelegate(delegations[i].validator, Coin(amount, denom))>>
                       \o rest.msgs]

\* a faulty schedule_undelegations: the undelegated amounts are not counted
schedule_undelegations_uncounted(st, env, remaining) ==
    IF remaining = 0 THEN [err |-> NoErr, msgs |-> <<>>, undelegated |-> 0]
    ELSE [UndelegateScan(Unwrap(st.open_interest).collateral.denom,
                         env.delegations, 1, remaining, 0)
              EXCEPT !.undelegated = 0]

\* a faulty schedule_undelegations: the whole stake of every delegation is
\* undelegated, whatever the remainder
schedule_undelegations_whole_stake(st, env, remaining) ==
    IF remaining = 0 THEN [err |-> NoErr, msgs |-> <<>>, undelegated |-> 0]
    ELSE [err |-> NoErr,
          msgs |-> SelectSeq([k \in 1..Len(env.delegations) |->
                                 Undelegate(env.delegations[k].validator,
                                            env.delegations[k].amount)],
                             LAMBDA m : m.coins[1].amount # 0),
          undelegated |-> Min(remaining, SumStakes(env.delegations, BondedDenom, 1))]

schedule_undelegations(st, env, remaining) ==
    IF remaining = 0 THEN [err |-> NoErr, msgs |-> <<>>, undelegated |-> 0]
    ELSE UndelegateScan(Unwrap(st.open_interest).collateral.denom,
                        env.delegations, 1, remaining, 0)

\* a faulty finalize_state: a settled liquidation leaves the expiry stored
finalize_state_keep_expiry(st, remaining) ==
    LET denom == Unwrap(st.open_interest).collateral.denom
    IN  IF remaining = 0
        THEN [err |-> NoErr,
              store |-> [st EXCEPT !.outstanding_debt = None, !.open_interest = None,
                                   !.lender = None]]
        ELSE IF remaining > UINT128_MAX
        THEN [err |-> Err("RepaymentAmountOverflow", denom, remaining, 0), store |-> st]
        ELSE [err |-> NoErr,
              store |-> [st EXCEPT !.outstanding_debt = Some(Coin(remaining, denom))]]

\* a faulty finalize_state: a partial liquidation releases the lender
finalize_state_release_lender(st, remaining) ==
    LET denom == Unwrap(st.open_interest).collateral.denom
    IN  IF remaining = 0
        THEN [err |-> NoErr,
              store |-> [st EXCEPT !.outstanding_debt = None, !.open_interest = None,
                                   !.lender = None, !.open_interest_expiry = None]]
        ELSE IF remaining > UINT128_MAX
        THEN [err |-> Err("RepaymentAmountOverflow", denom, remaining, 0), store |-> st]
        ELSE [err |-> NoErr,
              store |-> [st EXCEPT !.outstanding_debt = Some(Coin(remaining, denom)),
                                   !.lender = None]]

\* a faulty finalize_state: an unsettled liquidation records the whole
\* collateral as owed again
finalize_state_reset_debt(st, remaining) ==
    LET denom == Unwrap(st.open_interest).collateral.denom
    IN  IF remaining = 0
        THEN [err |-> NoErr,
              store |-> [st EXCEPT !.outstanding_debt = None, !.open_interest = None,
                                   !.lender = None, !.open_interest_expiry = None]]
        ELSE IF remaining > UINT128_MAX
        THEN [err |-> Err("RepaymentAmountOverflow", denom, remaining, 0), store |-> st]
        ELSE [err |-> NoErr,
              store |-> [st EXCEPT !.outstanding_debt =
                             Some(Unwrap(st.open_interest).collateral)]]

finalize_state(st, remaining) ==
    LET denom == Unwrap(st.open_interest).collateral.denom
    IN  IF remaining = 0
        THEN [err |-> NoErr,
              store |-> [st EXCEPT !.outstanding_debt = None, !.open_interest = None,
                                   !.lender = None, !.open_interest_expiry = None]]
        ELSE IF remaining > UINT128_MAX
        THEN [err |-> Err("RepaymentAmountOverflow", denom, remaining, 0), store |-> st]
        ELSE [err |-> NoErr,
              store |-> [st EXCEPT !.outstanding_debt = Some(Coin(remaining, denom))]]

\* a faulty liquidate: the payment is put in front of the reward claims
liquidate_pay_first(st, env, sender) ==
    IF LiquidationContext_load(st, env, sender) # NoErr
    THEN Fail(st, LiquidationContext_load(st, env, sender))
    ELSE IF get_outstanding_amount(st).err # NoErr
    THEN Fail(st, get_outstanding_amount(st).err)
    ELSE
    LET remaining == get_outstanding_amount(st).amount
        collected == collect_funds(st, env, remaining)
        available == collected.available
        payout_amount == Min(available, remaining)
        payout == IF payout_amount # 0 THEN payout_message(st, payout_amount)
                  ELSE [err |-> NoErr, msg |-> <<>>]
        remaining_after_payout == remaining - payout_amount
        undelegation == schedule_undelegations(st, env, remaining_after_payout)
        settled_remaining == remaining_after_payout - undelegation.undelegated
        final == finalize_state(st, settled_remaining)
    IN
    IF collected.err # NoErr THEN Fail(st, collected.err)
    ELSE IF payout.err # NoErr THEN Fail(st, payout.err)
    ELSE IF remaining_after_payout # 0 /\ ~is_bonded(st)
    THEN Fail(st, Err("InsufficientBalance", Unwrap(st.open_interest).collateral.denom,
                      available, remaining))
    ELSE IF undelegation.err # NoErr THEN Fail(st, undelegation.err)
    ELSE IF final.err # NoErr THEN Fail(st, final.err)
    ELSE Ok(final.store,
            payout.msg \o collected.reward_claim_messages \o undelegation.msgs)

liquidate(st, env, sender) ==
    IF LiquidationContext_load(st, env, sender) # NoErr
    THEN Fail(st, LiquidationContext_load(st, env, sender))
    ELSE IF get_outstanding_amount(st).err # NoErr
    THEN Fail(st, get_outstanding_amount(st).err)
    ELSE
    LET remaining == get_outstanding_amount(st).amount
        collected == collect_funds(st, env, remaining)
        available == collected.available
        payout_amount == Min(available, remaining)
        payout == IF payout_amount # 0 THEN payout_message(st, payout_amount)
                  ELSE [err |-> NoErr, msg |-> <<>>]
        remaining_after_payout == remaining - payout_amount
        undelegation == schedule_undelegations(st, env, remaining_after_payout)
        settled_remaining == remaining_after_payout - undelegation.undelegated
        final == finalize_state(st, settled_remaining)
    IN
    IF collected.err # NoErr THEN Fail(st, collected.err)
    ELSE IF payout.err # NoErr THEN Fail(st, payout.err)
    ELSE IF remaining_after_payout # 0 /\ ~is_bonded(st)
    THEN Fail(st, Err("InsufficientBalance", Unwrap(st.open_interest).collateral.denom,
                      available, remaining))
    ELSE IF undelegation.err # NoErr THEN Fail(st, undelegation.err)
    ELSE IF final.err # NoErr THEN Fail(st, final.err)
    ELSE Ok(final.store,
            collected.reward_claim_messages \o payout.msg \o undelegation.msgs)

\* transfer.rs: execute
transfer_ownership(st, sender, new_owner) ==
    IF sender # st.owner THEN Fail(st, E("Unauthorized"))
    ELSE IF new_owner = st.owner THEN Fail(st, E("OwnershipUnchanged"))
    ELSE Ok([st EXCEPT !.owner = new_owner], <<>>)

(* ------------------------------------------------------------------ *)
(* Inputs of the calls                                                 *)
(* ------------------------------------------------------------------ *)

Denoms == {"uatom", "ucol", "ujuno", "uusd"}

\* posted terms: bonded collateral with a separate interest denom, and
\* non-bonded collateral with interest in the liquidity denom
TermsA == OpenInterest(Coin(MaxLiquidity, "uusd"), Coin(1, "ujuno"), 1, Coin(2, "uatom"))

TermsB == OpenInterest(Coin(MaxLiquidity, "uusd"), Coin(1, "uusd"), 2, Coin(2, "ucol"))

\* terms that validate_open_interest rejects
TermsZeroDuration == OpenInterest(Coin(MaxLiquidity, "uusd"), Coin(1, "ujuno"), 0, Coin(2, "uatom"))

ValidTerms == {TermsA, TermsB}

TermsChoices == ValidTerms \cup {TermsZeroDuration}

WithAmount(t, a) == [t EXCEPT !.liquidity_coin.amount = a]

\* the payloads of propose, accept and fund: the posted terms at every
\* liquidity amount from 0 up to the posted one
ProposalChoices == {WithAmount(t, a) : t \in ValidTerms, a \in 0..MaxLiquidity}

FundsChoices ==
    {<<>>} \cup {<<Coin(a, "uusd")>> : a \in 1..MaxLiquidity}
           \cup {<<Coin(1, "uusd"), Coin(1, "uusd")>>, <<Coin(2, "ujuno")>>}

Validators == {"val1", "val2"}

Delegation(v, a) == [validator |-> v, amount |-> Coin(a, BondedDenom)]

DelegationChoices ==
    {<<>>, <<Delegation("val1", 1)>>, <<Delegation("val1", 0), Delegation("val2", 2)>>}

RewardChoices == {<<>>, <<Coin(1, BondedDenom)>>}

BalanceChoices == {[d \in Denoms |-> n] : n \in {0, 1, 2, MaxLiquidity + 1}}

\* what a call observes of the chain: block time and the bank, staking
\* and distribution queries about the vault
EnvChoices(t) ==
    {[time |-> t, balance |-> b, rewards |-> r, delegations |-> d] :
        b \in BalanceChoices, r \in RewardChoices, d \in DelegationChoices}

NoEnv(t) == [time |-> t, balance |-> [d \in Denoms |-> 0], rewards |-> <<>>,
             delegations |-> <<>>]

(* ------------------------------------------------------------------ *)
(* State                                                               *)
(* ------------------------------------------------------------------ *)

VARIABLES owner, lender, outstanding_debt, open_interest, open_interest_expiry,
          counter_offers, now, last, response

storage == <<owner, lender, outstanding_debt, open_interest, open_interest_expiry,
             counter_offers>>

vars == <<owner, lender, outstanding_debt, open_interest, open_interest_expiry,
          counter_offers, now, last, response>>

Store ==
    [owner |-> owner, lender |-> lender, outstanding_debt |-> outstanding_debt,
     open_interest |-> open_interest, open_interest_expiry |-> open_interest_expiry,
     counter_offers |-> counter_offers]

\* the call just executed: entry point, info.sender, info.funds, the
\* OpenInterest payload, the proposer / new owner argument, and the env
Call(op, sender, funds, interest, who, env) ==
    [op |-> op, sender |-> sender, funds |-> funds, interest |-> interest,
     who |-> who, env |-> env]

\* the host commits the writes of a successful call; it discards those of a
\* failed call, which leaves the state as it was (a stuttering step).  last
\* and response are the last committed call and its Response
Commit(call, r) ==
    /\ r.ok
    /\ last' = call
    /\ response' = [msgs |-> r.msgs]
    /\ owner' = r.store.owner
    /\ lender' = r.store.lender
    /\ outstanding_debt' = r.store.outstanding_debt
    /\ open_interest' = r.store.open_interest
    /\ open_interest_expiry' = r.store.open_interest_expiry
    /\ counter_offers' = r.store.counter_offers
    /\ UNCHANGED now

\* instantiate.rs: instantiate
Init ==
    /\ owner \in Actors
    /\ outstanding_debt = None
    /\ open_interest = None
    /\ lender = None
    /\ open_interest_expiry = None
    /\ counter_offers = EmptyBook
    /\ now = 0
    /\ last = Call("instantiate", owner, <<>>, None, 0, NoEnv(0))
    /\ response = [msgs |-> <<>>]

(* ------------------------------------------------------------------ *)
(* Actions: one per entry point                                        *)
(* ------------------------------------------------------------------ *)

Open ==
    \E s \in Actors, t \in TermsChoices, env \in EnvChoices(now) :
        Commit(Call("open", s, <<>>, Some(t), 0, env),
               open_interest_execute(Store, env, s, t))

Close ==
    \E s \in Actors :
        Commit(Call("close", s, <<>>, None, 0, NoEnv(now)), close(Store, s))

Propose ==
    \E s \in Actors, f \in FundsChoices, p \in ProposalChoices :
        Commit(Call("propose", s, f, Some(p), 0, NoEnv(now)), propose(Store, s, f, p))

Cancel ==
    \E s \in Actors :
        Commit(Call("cancel", s, <<>>, None, 0, NoEnv(now)), cancel(Store, s))

Accept ==
    \E s \in Actors, who \in Actors, p \in ProposalChoices :
        Commit(Call("accept", s, <<>>, Some(p), who, NoEnv(now)),
               accept(Store, s, who, p))

Fund ==
    \E s \in Actors, f \in FundsChoices, p \in ProposalChoices :
        Commit(Call("fund", s, f, Some(p), 0, NoEnv(now)),
               fund(Store, NoEnv(now), s, f, p))

Repay ==
    \E s \in Actors, env \in EnvChoices(now) :
        Commit(Call("repay", s, <<>>, None, 0, env), repay(Store, env, s))

Liquidate ==
    \E s \in Actors, env \in EnvChoices(now) :
        Commit(Call("liquidate", s, <<>>, None, 0, env), liquidate(Store, env, s))

TransferOwnership ==
    \E s \in Actors, who \in Actors :
        Commit(Call("transfer_ownership", s, <<>>, None, who, NoEnv(now)),
               transfer_ownership(Store, s, who))

\* block time advances between calls
Tick ==
    /\ now < MaxTime
    /\ now' = now + 1
    /\ last' = Call("tick", 0, <<>>, None, 0, NoEnv(now + 1))
    /\ response' = [msgs |-> <<>>]
    /\ UNCHANGED storage

Next ==
    \/ Open
    \/ Close
    \/ Propose
    \/ Cancel
    \/ Accept
    \/ Fund
    \/ Repay
    \/ Liquidate
    \/ TransferOwnership
    \/ Tick

Spec == Init /\ [][Next]_vars

(* ------------------------------------------------------------------ *)
(* The same machine started from a full book                           *)
(* ------------------------------------------------------------------ *)

RECURSIVE SumAmounts(_, _, _, _)
SumAmounts(book, keys, lo, hi) ==
    IF lo > hi THEN 0
    ELSE IF lo = hi THEN book[keys[lo]].liquidity_coin.amount
    ELSE SumAmounts(book, keys, lo, (lo + hi) \div 2)
         + SumAmounts(book, keys, (lo + hi) \div 2 + 1, hi)

\* sum of the liquidity amounts of the offers in the book
BookTotal(book) ==
    LET keys == RangeAscending(book) IN SumAmounts(book, keys, 1, Len(keys))

\* the book after MAX_COUNTER_OFFERS proposals on TermsA by the addresses
\* NumActors..MaxAddr: actor NumActors offered a0, address k offered fb and
\* every other address fa
FullBook(a0, fa, k, fb) ==
    [a \in NumActors..MaxAddr |->
        WithAmount(TermsA, IF a = NumActors THEN a0 ELSE IF a = k THEN fb ELSE fa)]

\* the state after instantiate, open(TermsA) and those proposals
InitFull ==
    \E a0 \in {1, MaxLiquidity - 1}, fa \in {1, MaxLiquidity - 1},
       fb \in {1, MaxLiquidity - 1}, k \in {NumActors + 1, MaxAddr} :
        /\ owner = 1
        /\ open_interest = Some(TermsA)
        /\ lender = None
        /\ open_interest_expiry = None
        /\ counter_offers = FullBook(a0, fa, k, fb)
        /\ outstanding_debt =
               Some(Coin(BookTotal(FullBook(a0, fa, k, fb)), "uusd"))
        /\ now = 0
        /\ last = Call("propose", MaxAddr, <<Coin(IF k = MaxAddr THEN fb ELSE fa, "uusd")>>,
                       Some(FullBook(a0, fa, k, fb)[MaxAddr]), 0, NoEnv(0))
        /\ response = [msgs |-> <<>>]

\* the calls that can succeed while the book is non-empty
NextFull ==
    \/ Close
    \/ Propose
    \/ Cancel
    \/ Accept
    \/ Fund

SpecFull == InitFull /\ [][NextFull]_vars

(* ------------------------------------------------------------------ *)
(* Properties                                                          *)
(* ------------------------------------------------------------------ *)

BookSize == Cardinality(DOMAIN counter_offers)

\* the least liquidity amount offered in a non-empty book
MinAmount(book) ==
    CHOOSE m \in {book[a].liquidity_coin.amount : a \in DOMAIN book} :
        \A a \in DOMAIN book : m <= book[a].liquidity_coin.amount

\* the preconditions of propose: pending phase, terms equal to the active
\* ones except for a nonzero, strictly smaller liquidity amount, exact
\* escrow attached, and no entry yet for the sender
ValidProposal(s, f, p) ==
    /\ IsSome(open_interest)
    /\ ~IsSome(lender)
    /\ p.liquidity_coin.denom = Unwrap(open_interest).liquidity_coin.denom
    /\ p.interest_coin = Unwrap(open_interest).interest_coin
    /\ p.collateral = Unwrap(open_interest).collateral
    /\ p.expiry_duration = Unwrap(open_interest).expiry_duration
    /\ p.liquidity_coin.amount > 0
    /\ p.liquidity_coin.amount < Unwrap(open_interest).liquidity_coin.amount
    /\ ReceivedFunds(f, p.liquidity_coin.denom) = p.liquidity_coin.amount
    /\ s \notin DOMAIN counter_offers

\* C1: while no lender is bound, the outstanding debt is the sum of the
\* liquidity amounts of the offers in the book, in the liquidity denom of
\* the active terms, and it is None exactly when the book is empty.
EscrowInvariant ==
    ~IsSome(lender) =>
        IF DOMAIN counter_offers = {}
        THEN outstanding_debt = None
        ELSE /\ IsSome(open_interest)
             /\ outstanding_debt =
                    Some(Coin(BookTotal(counter_offers),
                              Unwrap(open_interest).liquidity_coin.denom))

EscrowWitness ==
    /\ ~IsSome(lender)
    /\ BookSize >= 2
    /\ IsSome(outstanding_debt)
    /\ Unwrap(outstanding_debt).amount = BookTotal(counter_offers)
    /\ \E a \in DOMAIN counter_offers :
           Unwrap(outstanding_debt).amount > counter_offers[a].liquidity_coin.amount

\* C2: the book never holds more than MAX_COUNTER_OFFERS offers; a
\* committed propose adds one entry when the book was below capacity and
\* leaves the size unchanged when it was full.
CapacityInvariant ==
    /\ [](BookSize <= MAX_COUNTER_OFFERS)
    /\ [][last'.op = "propose" =>
            BookSize' = IF BookSize < MAX_COUNTER_OFFERS
                        THEN BookSize + 1 ELSE BookSize]_vars

\* a propose was committed on a full book and the book is full again
CapacityWitness ==
    /\ BookSize = MAX_COUNTER_OFFERS
    /\ last.op = "propose"
    /\ last.sender \in Actors
    /\ last.sender \in DOMAIN counter_offers
    /\ response.msgs # <<>>


\* the entries of the book before that are gone from the book after
Removed(before, after) == DOMAIN before \ DOMAIN after

\* C3: on a full book a valid propose whose amount exceeds the least amount
\* in the book succeeds, removes exactly one entry, one holding the least
\* amount, stores the new entry, returns that entry's coin to its proposer in
\* the only message, and moves the debt by the new amount less the evicted.
EvictionOnFullBook ==
    BookSize = MAX_COUNTER_OFFERS =>
        \A s \in Actors, f \in FundsChoices, p \in ProposalChoices :
            (/\ ValidProposal(s, f, p)
             /\ p.liquidity_coin.amount > MinAmount(counter_offers))
            => LET r == propose(Store, s, f, p)
                   gone == Removed(counter_offers, r.store.counter_offers)
               IN  /\ r.ok
                   /\ Cardinality(gone) = 1
                   /\ DOMAIN r.store.counter_offers =
                          (DOMAIN counter_offers \ gone) \cup {s}
                   /\ r.store.counter_offers[s] = p
                   /\ \A a \in DOMAIN counter_offers \ gone :
                          r.store.counter_offers[a] = counter_offers[a]
                   /\ \A v \in gone :
                          /\ counter_offers[v].liquidity_coin.amount =
                                 MinAmount(counter_offers)
                          /\ r.msgs = <<BankSend(v, <<counter_offers[v].liquidity_coin>>)>>
                          /\ IsSome(outstanding_debt)
                          /\ r.store.outstanding_debt =
                                 Some(Coin(Unwrap(outstanding_debt).amount
                                             + p.liquidity_coin.amount
                                             - counter_offers[v].liquidity_coin.amount,
                                           Unwrap(outstanding_debt).denom))

\* an evicting propose was committed: the book is full, the sender is in it
\* and the one message refunds a smaller offer of an address no longer in it
EvictionWitness ==
    /\ BookSize = MAX_COUNTER_OFFERS
    /\ last.op = "propose"
    /\ Len(response.msgs) = 1
    /\ response.msgs[1].to \notin DOMAIN counter_offers
    /\ response.msgs[1].coins[1].amount
           < counter_offers[last.sender].liquidity_coin.amount

\* C4: on a full book a propose that passes the checks made before the
\* capacity test and whose amount is at most the least amount in the book
\* fails with CounterOfferNotCompetitive carrying that least amount, and
\* every propose with such an amount fails with the storage as it was.
RejectionOnFullBook ==
    BookSize = MAX_COUNTER_OFFERS =>
        LET least == MinAmount(counter_offers)
        IN  \A s \in Actors, f \in FundsChoices, p \in ProposalChoices :
                p.liquidity_coin.amount <= least
                => LET r == propose(Store, s, f, p)
                   IN  /\ ~r.ok
                       /\ r.store = Store
                       /\ ValidProposal(s, f, p) =>
                              r.err = Err("CounterOfferNotCompetitive",
                                          p.liquidity_coin.denom, least, 0)

\* a full book left by an evicting propose, whose least amount is above 1,
\* so that valid proposals both equal to it and below it exist, and the
\* equal one is rejected
RejectionWitness ==
    /\ BookSize = MAX_COUNTER_OFFERS
    /\ last.op = "propose"
    /\ response.msgs # <<>>
    /\ MinAmount(counter_offers) > 1
    /\ \E s \in Actors, f \in FundsChoices, p \in ProposalChoices :
           /\ ValidProposal(s, f, p)
           /\ p.liquidity_coin.amount = MinAmount(counter_offers)
           /\ propose(Store, s, f, p).err =
                  Err("CounterOfferNotCompetitive", p.liquidity_coin.denom,
                      p.liquidity_coin.amount, 0)

\* C4 as stated, for every propose whatever its other fields: a propose on
\* a full book with an amount at most the least one fails with
\* CounterOfferNotCompetitive.
RejectionOfAnyProposal ==
    BookSize = MAX_COUNTER_OFFERS =>
        \A s \in Actors, f \in FundsChoices, p \in ProposalChoices :
            p.liquidity_coin.amount <= MinAmount(counter_offers)
            => propose(Store, s, f, p).err =
                   Err("CounterOfferNotCompetitive", p.liquidity_coin.denom,
                       MinAmount(counter_offers), 0)


\* the indices of the messages addressed to a
MessagesTo(msgs, a) == {i \in 1..Len(msgs) : msgs[i].to = a}

\* C5: a committed accept of proposer P leaves the book empty; its response
\* holds exactly one message for each other proposer of the book before the
\* call, a bank send of exactly that proposer's liquidity coin, and nothing
\* addressed to P.
AcceptanceExclusivity ==
    [][last'.op = "accept" =>
          /\ counter_offers' = EmptyBook
          /\ Len(response'.msgs) = BookSize - 1
          /\ MessagesTo(response'.msgs, last'.who) = {}
          /\ \A a \in DOMAIN counter_offers \ {last'.who} :
                 /\ Cardinality(MessagesTo(response'.msgs, a)) = 1
                 /\ \A i \in MessagesTo(response'.msgs, a) :
                        response'.msgs[i] =
                            BankSend(a, <<counter_offers[a].liquidity_coin>>)]_vars

\* an accept was committed on a full book: every offer but the accepted one
\* was refunded
AcceptanceWitness ==
    /\ last.op = "accept"
    /\ counter_offers = EmptyBook
    /\ Len(response.msgs) = MAX_COUNTER_OFFERS - 1
    /\ \A i \in 1..Len(response.msgs) : response.msgs[i].to # last.who

\* C6: a committed accept(owner, P, expected_offer) leaves Lender = P, the
\* stored OpenInterest equal to the offer P had in the book, which is the
\* expected one, and OutstandingDebt = None.
AcceptPostcondition ==
    [][last'.op = "accept" =>
          /\ last'.sender = owner
          /\ lender' = Some(last'.who)
          /\ open_interest' = Some(counter_offers[last'.who])
          /\ open_interest' = last'.interest
          /\ outstanding_debt' = None]_vars

\* an accept was committed that replaced the posted amount by a smaller one
\* and refunded another offer
AcceptPostconditionWitness ==
    /\ last.op = "accept"
    /\ lender = Some(last.who)
    /\ IsSome(open_interest)
    /\ Unwrap(open_interest).liquidity_coin.amount < MaxLiquidity
    /\ outstanding_debt = None
    /\ response.msgs # <<>>

\* C7: after a committed accept at block time t, Expiry is
\* t + expiry_duration of the accepted offer.
AcceptSetsExpiry ==
    last.op = "accept" =>
        open_interest_expiry =
            Some(last.env.time + Unwrap(open_interest).expiry_duration)

\* C8: Expiry is set exactly when Lender is set.
LenderAndExpiryTogether ==
    IsSome(open_interest_expiry) <=> IsSome(lender)

\* C9: a non-empty book implies an active open interest and no lender;
\* propose fails with NoOpenInterest when no open interest is active and
\* with LenderAlreadySet when a lender is bound; the book is empty after
\* every committed fund, accept or close.
PendingPhaseOnly ==
    /\ [](DOMAIN counter_offers # {} => IsSome(open_interest) /\ ~IsSome(lender))
    /\ [](\A s \in Actors, f \in FundsChoices, p \in ProposalChoices :
            LET r == propose(Store, s, f, p)
            IN  /\ ~IsSome(open_interest) =>
                       ~r.ok /\ r.err = E("NoOpenInterest")
                /\ IsSome(lender) =>
                       ~r.ok /\ r.err = E("LenderAlreadySet"))
    /\ [][last'.op \in {"fund", "accept", "close"} =>
              counter_offers' = EmptyBook]_vars

\* a fund was committed that refunded the offers of the book: the book is
\* empty, a lender is bound and every propose now fails
PendingPhaseWitness ==
    /\ last.op = "fund"
    /\ response.msgs # <<>>
    /\ counter_offers = EmptyBook
    /\ IsSome(lender)
    /\ \A f \in FundsChoices, p \in ProposalChoices :
           propose(Store, owner, f, p).err = E("LenderAlreadySet")

\* C10: in every state, a propose by P that succeeds without evicting,
\* followed at once by cancel from P, succeeds and leaves the book and
\* OutstandingDebt as they were before the propose; the cancel's only
\* message sends P exactly the liquidity coin P escrowed.
ProposeCancelRoundTrip ==
    \A s \in Actors, f \in FundsChoices, p \in ProposalChoices :
        LET r1 == propose(Store, s, f, p)
        IN  (r1.ok /\ r1.msgs = <<>>) =>
                LET r2 == cancel(r1.store, s)
                IN  /\ r2.ok
                    /\ r2.store.counter_offers = counter_offers
                    /\ r2.store.outstanding_debt = outstanding_debt
                    /\ r2.store.open_interest = open_interest
                    /\ r2.msgs = <<BankSend(s, <<p.liquidity_coin>>)>>
                    /\ ReceivedFunds(f, p.liquidity_coin.denom) = p.liquidity_coin.amount

\* a cancel was committed that emptied the book again: the debt is back to
\* None in the pending phase and the message refunds the sender
RoundTripWitness ==
    /\ last.op = "cancel"
    /\ IsSome(open_interest)
    /\ ~IsSome(lender)
    /\ counter_offers = EmptyBook
    /\ outstanding_debt = None
    /\ Len(response.msgs) = 1
    /\ response.msgs[1].to = last.sender


\* the amount a liquidation has to settle: the stored debt, or the whole
\* collateral on the first attempt
Owed ==
    IF IsSome(outstanding_debt) THEN Unwrap(outstanding_debt).amount
    ELSE Unwrap(open_interest).collateral.amount

RECURSIVE MsgTotalFrom(_, _, _)
MsgTotalFrom(msgs, kind, i) ==
    IF i > Len(msgs) THEN 0
    ELSE (IF msgs[i].kind = kind THEN SumCoins(msgs[i].coins, 1) ELSE 0)
         + MsgTotalFrom(msgs, kind, i + 1)

\* the total amount carried by the messages of one kind
MsgTotal(msgs, kind) == MsgTotalFrom(msgs, kind, 1)

MessagesOfKind(msgs, kind) == {i \in 1..Len(msgs) : msgs[i].kind = kind}

PositionCleared ==
    /\ open_interest = None
    /\ lender = None
    /\ open_interest_expiry = None
    /\ outstanding_debt = None

\* C11: after every committed close, and after every committed liquidate
\* whose payout and undelegations together cover the amount owed,
\* open_interest, lender, expiry and outstanding_debt are all unset.
IdempotentClearing ==
    [][(\/ last'.op = "close"
        \/ /\ last'.op = "liquidate"
           /\ Owed - MsgTotal(response'.msgs, "send")
                   - MsgTotal(response'.msgs, "undelegate") = 0)
       => PositionCleared']_vars

\* a liquidation settled by a payout and an undelegation has cleared the
\* position
IdempotentClearingWitness ==
    /\ last.op = "liquidate"
    /\ PositionCleared
    /\ MessagesOfKind(response.msgs, "send") # {}
    /\ MessagesOfKind(response.msgs, "undelegate") # {}


\* what a call can observe of the chain at any block time of the model
AnyEnv == UNION {EnvChoices(t) : t \in 0..MaxTime}

\* a call that returned an error left the storage as it found it
Untouched(r) == ~r.ok => r.store = Store

\* C12: at every reachable state and for every input of open, close,
\* propose, accept, cancel, fund, repay and liquidate, a call that returns
\* an error has written nothing: owner, open interest, lender, expiry,
\* outstanding debt and book are as before the call, host rollback aside.
ValidateBeforeMutate ==
    /\ \A s \in Actors, t \in TermsChoices, env \in AnyEnv :
           Untouched(open_interest_execute(Store, env, s, t))
    /\ \A s \in Actors : Untouched(close(Store, s))
    /\ \A s \in Actors, f \in FundsChoices, p \in ProposalChoices :
           Untouched(propose(Store, s, f, p))
    /\ \A s \in Actors, who \in Actors, p \in ProposalChoices :
           Untouched(accept(Store, s, who, p))
    /\ \A s \in Actors : Untouched(cancel(Store, s))
    /\ \A s \in Actors, f \in FundsChoices, p \in ProposalChoices, t \in 0..MaxTime :
           Untouched(fund(Store, NoEnv(t), s, f, p))
    /\ \A s \in Actors, env \in AnyEnv : Untouched(repay(Store, env, s))
    /\ \A s \in Actors, env \in AnyEnv : Untouched(liquidate(Store, env, s))

\* after an eviction the book is full again: a proposal at the least
\* amount passes every earlier check and is turned down by
\* determine_eviction_candidate, and one above it would evict again
ValidateBeforeMutateWitness ==
    /\ last.op = "propose"
    /\ response.msgs # <<>>
    /\ BookSize = MAX_COUNTER_OFFERS
    /\ \E s \in Actors, f \in FundsChoices, p \in ProposalChoices :
           /\ ~propose(Store, s, f, p).ok
           /\ propose(Store, s, f, p).err.kind = "CounterOfferNotCompetitive"
    /\ \E s \in Actors, f \in FundsChoices, p \in ProposalChoices :
           /\ propose(Store, s, f, p).ok
           /\ propose(Store, s, f, p).msgs # <<>>


\* C13: after a committed fund by L at block time t, Lender = L,
\* Expiry = t + the expiry_duration of the stored terms, the stored
\* OpenInterest is as before, the book is empty, OutstandingDebt is None and
\* the response holds exactly one message per offer of the book before the
\* call, a bank send of that offer's liquidity coin to its proposer.
FundEffects ==
    [][last'.op = "fund" =>
          /\ last'.env.time = now
          /\ lender' = Some(last'.sender)
          /\ IsSome(open_interest)
          /\ open_interest_expiry' =
                 Some(now + Unwrap(open_interest).expiry_duration)
          /\ open_interest' = open_interest
          /\ counter_offers' = EmptyBook
          /\ outstanding_debt' = None
          /\ Len(response'.msgs) = BookSize
          /\ \A a \in DOMAIN counter_offers :
                 /\ Cardinality(MessagesTo(response'.msgs, a)) = 1
                 /\ \A i \in MessagesTo(response'.msgs, a) :
                        response'.msgs[i] =
                            BankSend(a, <<counter_offers[a].liquidity_coin>>)]_vars

\* a fund at a later block time that refunded two offers
FundEffectsWitness ==
    /\ last.op = "fund"
    /\ last.env.time > 0
    /\ Len(response.msgs) = 2
    /\ lender = Some(last.sender)
    /\ IsSome(open_interest_expiry)


\* the terms that differ from t in exactly one field
OneFieldOff(t) ==
    {[t EXCEPT !.liquidity_coin.amount = t.liquidity_coin.amount + 1],
     [t EXCEPT !.liquidity_coin.denom = "ujuno"],
     [t EXCEPT !.interest_coin.amount = t.interest_coin.amount + 1],
     [t EXCEPT !.interest_coin.denom = "ucol"],
     [t EXCEPT !.expiry_duration = t.expiry_duration + 1],
     [t EXCEPT !.collateral.amount = t.collateral.amount + 1],
     [t EXCEPT !.collateral.denom = "uusd"]}

\* the payloads tried against fund: the posted terms at every amount, and
\* the stored terms with one field changed
FundPayloads ==
    ProposalChoices
        \cup (IF IsSome(open_interest) THEN OneFieldOff(Unwrap(open_interest)) ELSE {})

\* info.funds below, at and above the posted liquidity amount
FundingChoices ==
    FundsChoices \cup {<<Coin(MaxLiquidity + 1, "uusd")>>,
                       <<Coin(MaxLiquidity, "uusd"), Coin(1, "uusd")>>,
                       <<Coin(MaxLiquidity, "uusd"), Coin(1, "ujuno")>>}

\* the call failed with that error, wrote nothing and returned no message
Rejected(r, kind) ==
    /\ ~r.ok
    /\ r.err.kind = kind
    /\ r.store = Store
    /\ r.msgs = <<>>

\* C14: fund fails with NoOpenInterest when no open interest is stored, with
\* LenderAlreadySet when a lender is bound, with OpenInterestMismatch when
\* the expected terms differ from the stored ones in any field, and with
\* OpenInterestFundingMismatch (denom, expected, received) when the attached
\* funds in the liquidity denom sum to less or more than the stored amount;
\* each time nothing is written and nothing is refunded.
FundPreconditions ==
    \A s \in Actors, f \in FundingChoices, p \in FundPayloads :
        LET r == fund(Store, NoEnv(now), s, f, p)
        IN  /\ ~IsSome(open_interest) => Rejected(r, "NoOpenInterest")
            /\ IsSome(lender) => Rejected(r, "LenderAlreadySet")
            /\ (IsSome(open_interest) /\ ~IsSome(lender)
                    /\ p # Unwrap(open_interest))
                   => Rejected(r, "OpenInterestMismatch")
            /\ (IsSome(open_interest) /\ ~IsSome(lender)
                    /\ p = Unwrap(open_interest)
                    /\ ReceivedFunds(f, p.liquidity_coin.denom) # p.liquidity_coin.amount)
                   => /\ Rejected(r, "OpenInterestFundingMismatch")
                      /\ r.err = Err("OpenInterestFundingMismatch",
                                     p.liquidity_coin.denom, p.liquidity_coin.amount,
                                     ReceivedFunds(f, p.liquidity_coin.denom))

\* a pending position with offers in the book, where a fund of the stored
\* terms with one unit too much attached is turned down
FundPreconditionsWitness ==
    /\ IsSome(open_interest)
    /\ lender = None
    /\ BookSize > 0
    /\ Rejected(fund(Store, NoEnv(now), NumActors,
                     <<Coin(MaxLiquidity, "uusd"), Coin(1, "uusd")>>,
                     Unwrap(open_interest)),
                "OpenInterestFundingMismatch")


\* the coins a repayment of these terms carries: one coin of the summed
\* amount when liquidity and interest share a denom, both coins otherwise
RepaymentCoins(coins, terms) ==
    LET l == terms.liquidity_coin
        i == terms.interest_coin
    IN  IF l.denom = i.denom
        THEN coins = <<Coin(l.amount + i.amount, l.denom)>>
        ELSE /\ Len(coins) = 2
             /\ {coins[1], coins[2]} = {l, i}

\* C15: a committed repay returns exactly one message, a bank send to the
\* bound lender carrying per denom the sum of liquidity_coin and
\* interest_coin; afterwards OpenInterest, Lender and Expiry are unset and
\* OutstandingDebt is None.
RepayEffects ==
    [][last'.op = "repay" =>
          /\ IsSome(open_interest)
          /\ IsSome(lender)
          /\ Len(response'.msgs) = 1
          /\ response'.msgs[1].kind = "send"
          /\ response'.msgs[1].to = Unwrap(lender)
          /\ RepaymentCoins(response'.msgs[1].coins, Unwrap(open_interest))
          /\ PositionCleared']_vars

\* a repayment of terms with one denom, and so of one summed coin
RepayEffectsWitness ==
    /\ last.op = "repay"
    /\ Len(response.msgs) = 1
    /\ response.msgs[1].coins = <<Coin(MaxLiquidity + 1, "uusd")>>
    /\ lender = None

\* C16: repay fails, writing nothing and sending nothing, whenever an
\* OutstandingDebt is stored, whenever no open interest is stored and
\* whenever no lender is bound, whoever calls and whatever the balances.
RepayGuards ==
    \A s \in Actors, env \in AnyEnv :
        LET r == repay(Store, env, s)
        IN  (IsSome(outstanding_debt) \/ ~IsSome(open_interest) \/ ~IsSome(lender))
                => /\ ~r.ok
                   /\ r.store = Store
                   /\ r.msgs = <<>>

\* a partial liquidation has left debt, and the owner's repay with every
\* balance at hand is turned down for it
RepayGuardsWitness ==
    /\ last.op = "liquidate"
    /\ IsSome(outstanding_debt)
    /\ IsSome(lender)
    /\ \E env \in EnvChoices(now) :
           /\ \A d \in Denoms : env.balance[d] = MaxLiquidity + 1
           /\ Rejected(repay(Store, env, owner), "OutstandingDebt")


\* info.sender is the owner or the bound lender
OwnerOrLender(s) == s = owner \/ lender = Some(s)

\* the errors of the entry checks of liquidate
EntryErrors ==
    {"Unauthorized", "NoOpenInterest", "NoLender", "OpenInterestNotExpired",
     "open interest expiry missing despite lender being set"}

\* C17: liquidate succeeds only for the owner or the bound lender, with an
\* open interest and a lender stored, at a block time >= Expiry; a call at
\* exactly Expiry passes the entry checks.  A caller that is neither owner
\* nor lender gets Unauthorized; an authorized call before Expiry gets
\* OpenInterestNotExpired, with no open interest NoOpenInterest, with no
\* lender NoLender; each leaves the storage as it was.
LiquidationEntryCondition ==
    \A s \in Actors, env \in AnyEnv :
        LET r == liquidate(Store, env, s)
        IN  /\ r.ok => /\ OwnerOrLender(s)
                       /\ IsSome(open_interest)
                       /\ IsSome(lender)
                       /\ IsSome(open_interest_expiry)
                       /\ env.time >= Unwrap(open_interest_expiry)
            /\ (OwnerOrLender(s) /\ IsSome(open_interest) /\ IsSome(lender)
                    /\ open_interest_expiry = Some(env.time))
                   => r.err.kind \notin EntryErrors
            /\ ~OwnerOrLender(s) => Rejected(r, "Unauthorized")
            /\ (OwnerOrLender(s) /\ IsSome(open_interest_expiry)
                    /\ env.time < Unwrap(open_interest_expiry))
                   => Rejected(r, "OpenInterestNotExpired")
            /\ (OwnerOrLender(s) /\ ~IsSome(open_interest))
                   => Rejected(r, "NoOpenInterest")
            /\ (OwnerOrLender(s) /\ IsSome(open_interest) /\ ~IsSome(lender))
                   => Rejected(r, "NoLender")

\* a liquidation by the lender at exactly Expiry went through and left the
\* position open, where the same call one second earlier is turned down
LiquidationEntryWitness ==
    /\ last.op = "liquidate"
    /\ IsSome(lender)
    /\ last.sender = Unwrap(lender)
    /\ last.sender # owner
    /\ open_interest_expiry = Some(last.env.time)
    /\ last.env.time > 0
    /\ Rejected(liquidate(Store, NoEnv(last.env.time - 1), last.sender),
                "OpenInterestNotExpired")


\* the entry checks of liquidate pass for caller s at block time t
Eligible(s, t) ==
    /\ OwnerOrLender(s)
    /\ IsSome(open_interest)
    /\ IsSome(lender)
    /\ IsSome(open_interest_expiry)
    /\ t >= Unwrap(open_interest_expiry)

CollateralDenom == Unwrap(open_interest).collateral.denom

Cleared(st) == [st EXCEPT !.outstanding_debt = None, !.open_interest = None,
                          !.lender = None, !.open_interest_expiry = None]

\* C18: an eligible liquidate with a balance in the collateral denom of at
\* least the amount owed succeeds with exactly one message, a bank send of
\* exactly the amount owed to the lender (no reward withdrawal, no
\* undelegation), and leaves OutstandingDebt, OpenInterest, Lender and
\* Expiry unset and everything else as it was.
LiquidationCoveredByBalance ==
    \A s \in Actors, env \in AnyEnv :
        (Eligible(s, env.time) /\ env.balance[CollateralDenom] >= Owed)
            => LET r == liquidate(Store, env, s)
               IN  /\ r.ok
                   /\ r.msgs = <<BankSend(Unwrap(lender),
                                          <<Coin(Owed, CollateralDenom)>>)>>
                   /\ r.store = Cleared(Store)

\* a liquidation of bonded collateral paid from the balance alone, while
\* rewards and delegations were at hand
LiquidationCoveredWitness ==
    /\ last.op = "liquidate"
    /\ PositionCleared
    /\ last.env.rewards # <<>>
    /\ last.env.delegations # <<>>
    /\ response.msgs = <<BankSend(last.sender, <<Coin(2, BondedDenom)>>)>>

\* C19: an eligible liquidate of collateral that is not the bonded denom,
\* with a balance in that denom below the amount owed, fails with
\* InsufficientBalance (denom, available = the balance, requested = the
\* amount owed); nothing is paid and nothing is written.
LiquidationShortfallNotStakeable ==
    \A s \in Actors, env \in AnyEnv :
        (Eligible(s, env.time) /\ CollateralDenom # BondedDenom
             /\ env.balance[CollateralDenom] < Owed)
            => LET r == liquidate(Store, env, s)
               IN  /\ Rejected(r, "InsufficientBalance")
                   /\ r.err = Err("InsufficientBalance", CollateralDenom,
                                  env.balance[CollateralDenom], Owed)

\* the non-bonded terms funded and expired, with one unit of the two owed
\* in the balance
LiquidationShortfallWitness ==
    /\ open_interest = Some(TermsB)
    /\ IsSome(lender)
    /\ Eligible(Unwrap(lender), now)
    /\ \E env \in EnvChoices(now) :
           /\ env.balance["ucol"] = 1
           /\ liquidate(Store, env, Unwrap(lender)).err
                  = Err("InsufficientBalance", "ucol", 1, 2)

\* C20: in a committed liquidate, settled_remaining = owed - payout - total
\* undelegated; when it is zero OutstandingDebt, OpenInterest, Lender and
\* Expiry are all cleared; when it is not, OutstandingDebt is exactly
\* settled_remaining in the collateral denom and Lender, Expiry and
\* OpenInterest are as before the call.  Owner and book are never touched.
Settlement ==
    [][last'.op = "liquidate" =>
          LET payout == MsgTotal(response'.msgs, "send")
              undelegated == MsgTotal(response'.msgs, "undelegate")
              settled_remaining == Owed - payout - undelegated
          IN  /\ settled_remaining >= 0
              /\ settled_remaining = 0 => PositionCleared'
              /\ settled_remaining # 0 =>
                     /\ outstanding_debt' =
                            Some(Coin(settled_remaining, CollateralDenom))
                     /\ lender' = lender
                     /\ open_interest_expiry' = open_interest_expiry
                     /\ open_interest' = open_interest
              /\ owner' = owner
              /\ counter_offers' = counter_offers]_vars

\* a partial liquidation: one unit undelegated, one carried as debt
SettlementWitness ==
    /\ last.op = "liquidate"
    /\ outstanding_debt = Some(Coin(1, BondedDenom))
    /\ IsSome(lender)
    /\ IsSome(open_interest_expiry)
    /\ MsgTotal(response.msgs, "undelegate") = 1


\* C21: after every committed liquidate the amount still recorded as owed
\* (the OutstandingDebt, zero when the call closed the loan) is the amount
\* owed at entry minus what the call paid to the lender, and the lender is
\* cleared only when the payment covers everything owed.
UnpaidRemainderCarried ==
    [][last'.op = "liquidate" =>
          LET paid == MsgTotal(response'.msgs, "send")
              still_owed == IF IsSome(outstanding_debt')
                            THEN Unwrap(outstanding_debt').amount ELSE 0
          IN  /\ still_owed = Owed - paid
              /\ lender' = None => paid = Owed]_vars


\* C22: whenever an open interest is stored (pending with or without
\* offers, funded, partially liquidated), every open fails and leaves the
\* stored terms, book, lender, expiry and debt as they were; the owner's
\* open, which passes the authorization check, fails with
\* OpenInterestAlreadyExists whatever the terms.
SinglePosition ==
    IsSome(open_interest) =>
        \A s \in Actors, t \in TermsChoices, env \in EnvChoices(now) :
            LET r == open_interest_execute(Store, env, s, t)
            IN  /\ ~r.ok
                /\ r.store = Store
                /\ r.msgs = <<>>
                /\ s = owner => r.err.kind = "OpenInterestAlreadyExists"

\* a partly liquidated position, where the owner's open of valid terms with
\* every balance at hand is turned down
SinglePositionWitness ==
    /\ IsSome(open_interest)
    /\ IsSome(lender)
    /\ IsSome(outstanding_debt)
    /\ \E env \in EnvChoices(now) :
           /\ \A d \in Denoms : env.balance[d] = MaxLiquidity + 1
           /\ Rejected(open_interest_execute(Store, env, owner, TermsB),
                       "OpenInterestAlreadyExists")

\* C23: while a lender is bound, a step either leaves the Lender and every
\* field of the stored OpenInterest as they are, or clears both together,
\* and only a repay or a liquidation does the latter.
BindingTermsFrozen ==
    [][IsSome(lender) =>
          \/ /\ lender' = lender
             /\ open_interest' = open_interest
          \/ /\ lender' = None
             /\ open_interest' = None
             /\ last'.op \in {"repay", "liquidate"}]_vars

\* a partial liquidation went through with the lender still bound to the
\* terms
BindingTermsFrozenWitness ==
    /\ last.op = "liquidate"
    /\ IsSome(lender)
    /\ open_interest = Some(TermsA)
    /\ response.msgs # <<>>


\* the payloads tried against accept of proposer a: the posted terms at
\* every amount, and a's stored offer with one field changed
AcceptPayloads(a) ==
    ProposalChoices
        \cup (IF a \in DOMAIN counter_offers THEN OneFieldOff(counter_offers[a]) ELSE {})

\* C24: whatever cancel and propose calls of P came before it, an accept of
\* (P, e) succeeds only if the offer stored for P at the call equals e in
\* every field; the owner's accept on a pending position fails with
\* CounterOfferNotFound when P has no entry and with CounterOfferMismatch
\* when the stored offer differs from e, and then book, debt, lender and
\* open interest are as before.
StaleOfferDefence ==
    \A s \in Actors, P \in Actors :
        \A e \in AcceptPayloads(P) :
            LET r == accept(Store, s, P, e)
                pending == s = owner /\ IsSome(open_interest) /\ ~IsSome(lender)
            IN  /\ r.ok => /\ P \in DOMAIN counter_offers
                           /\ counter_offers[P] = e
                /\ (pending /\ P \notin DOMAIN counter_offers)
                       => Rejected(r, "CounterOfferNotFound")
                /\ (pending /\ P \in DOMAIN counter_offers /\ counter_offers[P] # e)
                       => Rejected(r, "CounterOfferMismatch")

\* P has just proposed anew: the accept of P's present offer goes through,
\* the accept of P's offer at another amount is turned down
StaleOfferWitness ==
    /\ last.op = "propose"
    /\ last.sender \in DOMAIN counter_offers
    /\ lender = None
    /\ accept(Store, owner, last.sender, counter_offers[last.sender]).ok
    /\ \E e \in ProposalChoices :
           /\ e.liquidity_coin.amount # 0
           /\ e.liquidity_coin.amount < MaxLiquidity
           /\ Rejected(accept(Store, owner, last.sender, e), "CounterOfferMismatch")


\* C25: a committed cancel by P, who had an entry, removes P's entry and no
\* other, lowers the outstanding debt by P's amount (to None when nothing is
\* left), returns exactly one message, a bank send of P's escrowed coin to
\* P, and leaves the other entries, the open interest and the lender as
\* they were. A cancel fails with NoOpenInterest when no open interest is
\* stored, and with CounterOfferNotFound when one is stored and the caller
\* has no entry in the book; either way nothing is written or sent.
CancelEffects ==
    /\ [](\A s \in Actors :
              LET r == cancel(Store, s)
              IN  /\ ~IsSome(open_interest) => Rejected(r, "NoOpenInterest")
                  /\ (IsSome(open_interest) /\ s \notin DOMAIN counter_offers)
                         => Rejected(r, "CounterOfferNotFound")
                  /\ r.ok <=> (IsSome(open_interest) /\ s \in DOMAIN counter_offers))
    /\ [][last'.op = "cancel" =>
          LET P == last'.sender
              escrow == counter_offers[P].liquidity_coin
              left == Unwrap(outstanding_debt).amount - escrow.amount
          IN  /\ P \in DOMAIN counter_offers
              /\ DOMAIN counter_offers' = DOMAIN counter_offers \ {P}
              /\ \A a \in DOMAIN counter_offers' : counter_offers'[a] = counter_offers[a]
              /\ IsSome(outstanding_debt)
              /\ outstanding_debt' = IF left = 0 THEN None
                                     ELSE Some(Coin(left, escrow.denom))
              /\ BookSize = 1 => outstanding_debt' = None
              /\ response'.msgs = <<BankSend(P, <<escrow>>)>>
              /\ open_interest' = open_interest
              /\ lender' = lender
              /\ owner' = owner
              /\ open_interest_expiry' = open_interest_expiry]_vars

\* a cancel that left another proposer's offer standing, the debt lowered
\* to that offer's amount; a second cancel by the same caller finds no entry
CancelEffectsWitness ==
    /\ last.op = "cancel"
    /\ BookSize = 1
    /\ last.sender \notin DOMAIN counter_offers
    /\ IsSome(outstanding_debt)
    /\ response.msgs # <<>>
    /\ response.msgs[1].to = last.sender
    /\ Rejected(cancel(Store, last.sender), "CounterOfferNotFound")


\* C26: a propose succeeds only if the attached coins in the offer's
\* liquidity denom sum to exactly the offer's amount; on a pending position
\* a propose of acceptable terms with nothing, less or more attached fails
\* with CounterOfferEscrowMismatch carrying the denom, the expected and the
\* received amount, and book and outstanding debt are as before.
EscrowMustMatch ==
    \A s \in Actors, f \in FundingChoices, p \in ProposalChoices :
        LET r == propose(Store, s, f, p)
            denom == p.liquidity_coin.denom
            expected == p.liquidity_coin.amount
            received == ReceivedFunds(f, denom)
            acceptable == /\ IsSome(open_interest)
                          /\ ~IsSome(lender)
                          /\ validate_counter_offer(Unwrap(open_interest), p) = NoErr
        IN  /\ r.ok => received = expected
            /\ (acceptable /\ received # expected)
                   => /\ Rejected(r, "CounterOfferEscrowMismatch")
                      /\ r.err = Err("CounterOfferEscrowMismatch", denom, expected, received)
                      /\ r.store.counter_offers = counter_offers
                      /\ r.store.outstanding_debt = outstanding_debt

\* an offer paid in two coins of the liquidity denom was booked; the other
\* proposer's offer of 1 is turned down with nothing, with 2 and with 1 of
\* another denom attached, and goes through with exactly 1
EscrowMustMatchWitness ==
    /\ last.op = "propose"
    /\ Len(last.funds) = 2
    /\ last.sender \in DOMAIN counter_offers
    /\ \E s \in Actors \ DOMAIN counter_offers :
           LET p == WithAmount(Unwrap(open_interest), 1)
               d == p.liquidity_coin.denom
           IN  /\ propose(Store, s, <<Coin(1, d)>>, p).ok
               /\ propose(Store, s, <<>>, p).err
                      = Err("CounterOfferEscrowMismatch", d, 1, 0)
               /\ propose(Store, s, <<Coin(2, d)>>, p).err
                      = Err("CounterOfferEscrowMismatch", d, 1, 2)
               /\ Rejected(propose(Store, s, <<Coin(2, "ujuno")>>, p),
                           "CounterOfferEscrowMismatch")


\* the offer agrees with the active terms in liquidity denom, interest
\* coin, collateral coin and expiry_duration
SameTerms(active, offer) ==
    /\ offer.liquidity_coin.denom = active.liquidity_coin.denom
    /\ offer.interest_coin = active.interest_coin
    /\ offer.collateral = active.collateral
    /\ offer.expiry_duration = active.expiry_duration

\* the offers tried against propose: the posted terms at every amount, the
\* active terms with one field changed
OfferChoices ==
    ProposalChoices
        \cup (IF IsSome(open_interest) THEN OneFieldOff(Unwrap(open_interest)) ELSE {})

\* C27: every offer in the book has the liquidity denom, interest coin,
\* collateral coin and expiry_duration of the active open interest and a
\* liquidity amount that is nonzero and strictly smaller than the active
\* one; on a pending position a propose that differs in one of these terms
\* fails with CounterOfferTermsMismatch, one of amount zero with
\* InvalidCoinAmount, one of an amount not smaller with
\* CounterOfferNotSmaller, and nothing is changed.
OffersFollowActiveTerms ==
    /\ \A a \in DOMAIN counter_offers :
           /\ IsSome(open_interest)
           /\ SameTerms(Unwrap(open_interest), counter_offers[a])
           /\ counter_offers[a].liquidity_coin.amount # 0
           /\ counter_offers[a].liquidity_coin.amount
                  < Unwrap(open_interest).liquidity_coin.amount
    /\ (IsSome(open_interest) /\ ~IsSome(lender)) =>
           \A s \in Actors, f \in FundsChoices, p \in OfferChoices :
               LET active == Unwrap(open_interest)
                   r == propose(Store, s, f, p)
               IN  IF ~SameTerms(active, p)
                   THEN Rejected(r, "CounterOfferTermsMismatch")
                   ELSE IF p.liquidity_coin.amount = 0
                   THEN Rejected(r, "InvalidCoinAmount")
                   ELSE p.liquidity_coin.amount >= active.liquidity_coin.amount
                            => Rejected(r, "CounterOfferNotSmaller")

\* two offers are booked on the active terms; a third at the posted amount,
\* at zero, or on other terms would be turned down
OffersFollowActiveTermsWitness ==
    /\ last.op = "propose"
    /\ BookSize = 2
    /\ \E a, b \in DOMAIN counter_offers :
           counter_offers[a].liquidity_coin.amount
               # counter_offers[b].liquidity_coin.amount
    /\ \E p \in OfferChoices :
           /\ SameTerms(Unwrap(open_interest), p)
           /\ p.liquidity_coin.amount = Unwrap(open_interest).liquidity_coin.amount
           /\ Rejected(propose(Store, owner, <<p.liquidity_coin>>, p),
                       "CounterOfferNotSmaller")
    /\ \E p \in OfferChoices :
           /\ p.liquidity_coin.amount = 1
           /\ p.expiry_duration # Unwrap(open_interest).expiry_duration
           /\ Rejected(propose(Store, owner, <<p.liquidity_coin>>, p),
                       "CounterOfferTermsMismatch")
    /\ Rejected(propose(Store, owner, <<>>, WithAmount(Unwrap(open_interest), 0)),
                "InvalidCoinAmount")


\* C28: a close succeeds exactly for the owner on an open interest with no
\* lender bound; otherwise it fails with Unauthorized, LenderAlreadySet or
\* NoOpenInterest and changes nothing. A committed close returns exactly
\* one refund per offer of the book, each of the offer's whole escrow to
\* its proposer, leaves the book empty, the outstanding debt None and the
\* open interest cleared, and after it an open by the owner with valid
\* terms succeeds.
CloseAndReopen ==
    /\ [](\A s \in Actors :
              LET r == close(Store, s)
              IN  /\ r.ok <=> (s = owner /\ IsSome(open_interest) /\ ~IsSome(lender))
                  /\ s # owner => Rejected(r, "Unauthorized")
                  /\ (s = owner /\ IsSome(lender)) => Rejected(r, "LenderAlreadySet")
                  /\ (s = owner /\ ~IsSome(lender) /\ ~IsSome(open_interest))
                         => Rejected(r, "NoOpenInterest"))
    /\ [](last.op = "close" =>
              \A t \in TermsChoices, env \in EnvChoices(now) :
                  validate_open_interest(env, t) = NoErr
                      => LET r == open_interest_execute(Store, env, owner, t)
                         IN  /\ r.ok
                             /\ r.store.open_interest = Some(t))
    /\ [][last'.op = "close" =>
             /\ last'.sender = owner
             /\ Len(response'.msgs) = BookSize
             /\ \A a \in DOMAIN counter_offers :
                    \E i \in 1..Len(response'.msgs) :
                        response'.msgs[i]
                            = BankSend(a, <<counter_offers[a].liquidity_coin>>)
             /\ counter_offers' = EmptyBook
             /\ outstanding_debt' = None
             /\ open_interest' = None
             /\ lender' = None
             /\ owner' = owner]_vars

\* a close that refunded two offers; the owner can post the terms again
CloseAndReopenWitness ==
    /\ last.op = "close"
    /\ Len(response.msgs) = 2
    /\ response.msgs[1].to # response.msgs[2].to
    /\ open_interest = None
    /\ \E t \in ValidTerms, env \in EnvChoices(now) :
           open_interest_execute(Store, env, owner, t).ok
    /\ Rejected(close(Store, owner), "NoOpenInterest")


\* terms with the collateral replaced
WithCollateral(t, amount, denom) == [t EXCEPT !.collateral = Coin(amount, denom)]

\* collateral coins below, at and above what balance, rewards and stake of
\* the model can cover, in the bonded and in another denom
CollateralChoices ==
    {Coin(a, d) : a \in {1, 2, 3, MaxLiquidity + 2, MaxLiquidity + 4, MaxLiquidity + 5},
                  d \in {BondedDenom, "ucol"}}

OverflowAmounts ==
    {1, UINT128_MAX - 1, UINT128_MAX, UINT128_MAX + 1, UINT256_MAX - 1, UINT256_MAX}

\* terms valid in every other respect, with liquidity and interest of these
\* amounts in one denom and in two
OverflowTerms ==
    {[TermsA EXCEPT !.liquidity_coin = Coin(l, "uusd"), !.interest_coin = Coin(i, d)] :
        l \in OverflowAmounts, i \in OverflowAmounts, d \in {"uusd", "ujuno"}}

\* C30: an open by the owner fails with RepaymentAmountOverflow, naming the
\* denom and the requested total, when liquidity_coin and interest_coin
\* share a denom and their sum exceeds the 128-bit maximum, or when their
\* denoms differ and either amount alone exceeds it; terms whose per-denom
\* totals all fit are not rejected by this check; nothing is stored on
\* failure.
RepaymentOverflowOnOpen ==
    ~IsSome(open_interest) =>
        \A t \in OverflowTerms, env \in {[NoEnv(now) EXCEPT !.balance = b] : b \in BalanceChoices} :
            LET l == t.liquidity_coin
                i == t.interest_coin
                r == open_interest_execute(Store, env, owner, t)
                totals == IF l.denom = i.denom
                          THEN {Coin(l.amount + i.amount, l.denom)}
                          ELSE {l, i}
                over == {c \in totals : c.amount > UINT128_MAX}
            IN  /\ over # {} =>
                       /\ Rejected(r, "RepaymentAmountOverflow")
                       /\ \E c \in over : /\ r.err.denom = c.denom
                                          /\ r.err.x = c.amount
                /\ over = {} =>
                       /\ r.err.kind \notin {"RepaymentAmountOverflow",
                                             "repayment amount overflow"}
                       /\ env.balance[t.collateral.denom] >= t.collateral.amount => r.ok
                /\ ~r.ok => r.store = Store


\* C31: in every reachable state open, close, accept and repay called by an
\* address other than the stored owner fail with Unauthorized and write
\* nothing, whether the caller is the bound lender, a proposer of the book
\* or neither; a committed open, close, accept or repay was sent by the
\* owner.
OwnerOnly ==
    /\ [](\A s \in Actors \ {owner} :
              /\ \A t \in TermsChoices, env \in EnvChoices(now) :
                     Rejected(open_interest_execute(Store, env, s, t), "Unauthorized")
              /\ Rejected(close(Store, s), "Unauthorized")
              /\ \A P \in Actors :
                     \A e \in AcceptPayloads(P) :
                         Rejected(accept(Store, s, P, e), "Unauthorized")
              /\ \A env \in EnvChoices(now) :
                     Rejected(repay(Store, env, s), "Unauthorized"))
    /\ [][last'.op \in {"open", "close", "accept", "repay"}
              => last'.sender = owner]_vars

\* the bound lender is not the owner: its repay is refused where the
\* owner's goes through, and so are its open, close and accept
OwnerOnlyWitness ==
    /\ IsSome(lender)
    /\ Unwrap(lender) # owner
    /\ last.op \in {"fund", "accept"}
    /\ \E env \in EnvChoices(now) :
           /\ repay(Store, env, owner).ok
           /\ Rejected(repay(Store, env, Unwrap(lender)), "Unauthorized")
    /\ Rejected(close(Store, Unwrap(lender)), "Unauthorized")


\* the place of a message in the list liquidate builds: reward claims,
\* then the payout, then the undelegations
BuildRank(msg) ==
    IF msg.kind = "withdraw_reward" THEN 1
    ELSE IF msg.kind = "send" THEN 2
    ELSE 3

\* C32: in the messages of every committed liquidate all reward
\* withdrawals come before the payment to the lender and the payment comes
\* before all undelegations; there is at most one payment, and the
\* response carries the messages in the order they were built.
LiquidationMessageOrder ==
    [][last'.op = "liquidate" =>
          LET msgs == response'.msgs
              built == liquidate(Store, last'.env, last'.sender).msgs
          IN  /\ msgs = built
              /\ \A k \in 1..Len(msgs) :
                     msgs[k].kind \in {"withdraw_reward", "send", "undelegate"}
              /\ \A j, k \in 1..Len(msgs) :
                     j < k => BuildRank(msgs[j]) <= BuildRank(msgs[k])
              /\ Cardinality({k \in 1..Len(msgs) : msgs[k].kind = "send"}) <= 1
              /\ \A k \in 1..Len(msgs) :
                     msgs[k].kind = "send" => msgs[k].to = Unwrap(lender)]_vars

\* a liquidate that claimed rewards, paid the lender and undelegated
LiquidationMessageOrderWitness ==
    /\ last.op = "liquidate"
    /\ Len(response.msgs) >= 3
    /\ response.msgs[1].kind = "withdraw_reward"
    /\ \E k \in 2..Len(response.msgs) : response.msgs[k].kind = "send"
    /\ response.msgs[Len(response.msgs)].kind = "undelegate"


\* what a liquidate has at hand in the collateral denom: the balance, and
\* the claimable rewards in that denom as well when the collateral is
\* bonded and the balance is short of the amount owed
AvailableFor(env) ==
    LET balance == env.balance[CollateralDenom]
    IN  IF CollateralDenom = BondedDenom /\ balance < Owed
        THEN balance + SumCoinsOf(env.rewards, CollateralDenom, 1)
        ELSE balance

\* C33: the amount owed at a liquidate is the stored OutstandingDebt amount
\* when one is present and the whole collateral amount otherwise; the
\* payout of a committed liquidate is min(available, owed), and its
\* response holds a payment to the lender, of exactly the payout in the
\* collateral denom, if and only if the payout is nonzero.
PayoutFormula ==
    /\ []((IsSome(open_interest) /\ IsSome(lender))
              => get_outstanding_amount(Store) = [err |-> NoErr, amount |-> Owed])
    /\ [][last'.op = "liquidate" =>
             LET payout == Min(AvailableFor(last'.env), Owed)
                 sends == MessagesOfKind(response'.msgs, "send")
             IN  /\ payout # 0 <=> sends # {}
                 /\ \A k \in sends :
                        response'.msgs[k]
                            = BankSend(Unwrap(lender), <<Coin(payout, CollateralDenom)>>)
                 /\ Cardinality(sends) <= 1]_vars

\* a second liquidation: with 2 or more in the balance the lender was paid
\* 1, the debt left by the first, and the position was cleared
PayoutFormulaWitness ==
    /\ last.op = "liquidate"
    /\ PositionCleared
    /\ last.env.balance[BondedDenom] >= 2
    /\ \E k \in 1..Len(response.msgs) :
           /\ response.msgs[k].kind = "send"
           /\ response.msgs[k].coins = <<Coin(1, BondedDenom)>>


\* delegation lists in which a stake covers the remainder before the list
\* ends, and in which it takes more than one stake to cover it
ScheduleChoices ==
    DelegationChoices \cup
        {<<Delegation("val1", 1), Delegation("val2", 2)>>,
         <<Delegation("val1", 2), Delegation("val2", 1)>>,
         <<Delegation("val1", 1), Delegation("val2", 0), Delegation("val1", 1)>>}

\* the chain views of these delegation lists at block time t
ScheduleEnvs(t) ==
    {[time |-> t, balance |-> b, rewards |-> r, delegations |-> d] :
        b \in BalanceChoices, r \in RewardChoices, d \in ScheduleChoices}

\* the stake of the first n delegations
RECURSIVE StakeOfFirst(_, _)
StakeOfFirst(delegations, n) ==
    IF n = 0 THEN 0
    ELSE StakeOfFirst(delegations, n - 1) + delegations[n].amount.amount

\* what is taken from the i-th delegation to cover the remainder: what the
\* delegations before it leave uncovered, up to its stake
TakenFrom(delegations, i, remainder) ==
    Min(delegations[i].amount.amount,
        saturating_sub(remainder, StakeOfFirst(delegations, i - 1)))

\* C34: when the remainder after the payout is nonzero and the collateral
\* is bonded, a successful liquidate returns its undelegate messages in
\* delegation order, one for each delegation from which something is
\* taken, of min(remaining, stake) each and never above the stake, none of
\* amount zero, none once the remainder is covered, and their total is
\* min(remainder, sum of all stakes); when the remainder is zero there is
\* no undelegate message.
UndelegationSchedule ==
    (IsSome(open_interest) /\ IsSome(lender)) =>
        \A s \in Actors, env \in ScheduleEnvs(now) :
            LET r == liquidate(Store, env, s)
                delegations == env.delegations
                remainder == Owed - Min(AvailableFor(env), Owed)
                all == [i \in 1..Len(delegations) |->
                           Undelegate(delegations[i].validator,
                                      Coin(TakenFrom(delegations, i, remainder),
                                           CollateralDenom))]
                taken(m) == m.coins[1].amount # 0
                undelegations == SelectSeq(r.msgs, LAMBDA m : m.kind = "undelegate")
            IN  r.ok =>
                    /\ undelegations = SelectSeq(all, taken)
                    /\ MsgTotal(r.msgs, "undelegate")
                           = Min(remainder, StakeOfFirst(delegations, Len(delegations)))
                    /\ remainder = 0 => undelegations = <<>>
                    /\ \A k \in 1..Len(undelegations) :
                           /\ undelegations[k].coins[1].amount # 0
                           /\ undelegations[k].coins[1].denom = BondedDenom

\* a liquidation undelegated 1 and left 1 owed; on stakes of 1 and 2 the
\* next one takes 1 from the first validator and nothing from the second,
\* on stakes of 0 and 2 it skips the first
UndelegationScheduleWitness ==
    /\ last.op = "liquidate"
    /\ MsgTotal(response.msgs, "undelegate") = 1
    /\ IsSome(lender)
    /\ Owed = 1
    /\ liquidate(Store,
                 [NoEnv(now) EXCEPT !.delegations =
                      <<Delegation("val1", 1), Delegation("val2", 2)>>],
                 Unwrap(lender)).msgs
         = <<Undelegate("val1", Coin(1, BondedDenom))>>
    /\ liquidate(Store,
                 [NoEnv(now) EXCEPT !.delegations =
                      <<Delegation("val1", 0), Delegation("val2", 2)>>],
                 Unwrap(lender)).msgs
         = <<Undelegate("val2", Coin(1, BondedDenom))>>


\* chain views whose rewards are none, in the bonded denom, in another
\* denom, and in both
RewardEnvs(t) ==
    {[time |-> t, balance |-> b, rewards |-> r, delegations |-> d] :
        b \in BalanceChoices,
        r \in RewardChoices \cup {<<Coin(1, "ujuno")>>,
                                  <<Coin(1, "ujuno"), Coin(2, BondedDenom)>>},
        d \in DelegationChoices}

\* one DistributionMsg::WithdrawDelegatorReward per delegation, in order
WithdrawalPerDelegation(delegations) ==
    [i \in 1..Len(delegations) |-> WithdrawReward(delegations[i].validator)]

\* C35: liquidate counts claimable rewards into the available figure, and
\* returns reward withdrawals, only when the collateral denom is the bonded
\* denom and the balance is below the amount owed; then, if the reward
\* total is nonzero, it returns exactly one withdrawal per delegation and
\* available = balance + rewards, and if the total is zero it returns none
\* and available = balance.
RewardCollection ==
    (IsSome(open_interest) /\ IsSome(lender)) =>
        \A s \in Actors, env \in RewardEnvs(now) :
            LET balance == env.balance[CollateralDenom]
                short == CollateralDenom = BondedDenom /\ balance < Owed
                total == SumCoinsOf(env.rewards, BondedDenom, 1)
                collected == collect_funds(Store, env, Owed)
                r == liquidate(Store, env, s)
                withdrawals == SelectSeq(r.msgs, LAMBDA m : m.kind = "withdraw_reward")
                expected == IF short /\ total # 0
                            THEN WithdrawalPerDelegation(env.delegations)
                            ELSE <<>>
            IN  /\ collected.err = NoErr
                /\ collected.available = (IF short THEN balance + total ELSE balance)
                /\ collected.rewards_claimed = (IF short THEN total ELSE 0)
                /\ collected.reward_claim_messages = expected
                /\ r.ok => /\ withdrawals = expected
                           /\ MsgTotal(r.msgs, "send")
                                  = Min(IF short THEN balance + total ELSE balance, Owed)

\* a liquidation on a balance of 0 claimed the rewards of both delegations
\* and paid them out; from the state it left, a call finding no rewards
\* claims nothing
RewardCollectionWitness ==
    /\ last.op = "liquidate"
    /\ last.env.balance[BondedDenom] = 0
    /\ Len(response.msgs) >= 3
    /\ response.msgs[1] = WithdrawReward("val1")
    /\ response.msgs[2] = WithdrawReward("val2")
    /\ response.msgs[3].kind = "send"
    /\ response.msgs[3].coins = <<Coin(1, BondedDenom)>>


\* the proposers whose offers hold the least amount of the book
TiedForLeast(book) ==
    LET least == MinAmount(book)
    IN  {a \in DOMAIN book : book[a].liquidity_coin.amount = least}

\* the first of them in the ascending key order of the scan
FirstTied(book) ==
    LET tied == TiedForLeast(book)
    IN  CHOOSE a \in tied : \A b \in tied : a <= b

\* C36: on a full book, a valid propose above the least amount evicts,
\* among the entries tied for the least amount, the one whose proposer
\* address comes first in the ascending key order of the scan; the victim
\* is a function of the stored book alone, whatever calls built the book
\* and whoever proposes at whatever competitive amount.
DeterministicVictim ==
    BookSize = MAX_COUNTER_OFFERS =>
        LET least == MinAmount(counter_offers)
            victim == FirstTied(counter_offers)
            scanned == snapshot_counter_offer_capacity(counter_offers).worst
        IN  \A s \in Actors, f \in FundsChoices, p \in ProposalChoices :
                (/\ ValidProposal(s, f, p)
                 /\ p.liquidity_coin.amount > least)
                => LET r == propose(Store, s, f, p)
                   IN  /\ r.ok
                       /\ scanned = victim
                       /\ DOMAIN r.store.counter_offers
                              = (DOMAIN counter_offers \ {victim}) \cup {s}
                       /\ r.msgs = <<BankSend(victim,
                                              <<counter_offers[victim].liquidity_coin>>)>>

\* an eviction from a book in which several entries held the least
\* amount: the victim was not the first key of the book, entries of the
\* victim's amount remain, and all of them come after it
DeterministicVictimWitness ==
    /\ BookSize = MAX_COUNTER_OFFERS
    /\ last.op = "propose"
    /\ Len(response.msgs) = 1
    /\ LET victim == response.msgs[1].to
           amount == response.msgs[1].coins[1].amount
           tied == {a \in DOMAIN counter_offers :
                        counter_offers[a].liquidity_coin.amount = amount}
       IN  /\ victim \notin DOMAIN counter_offers
           /\ Cardinality(tied) > 1
           /\ \A a \in tied : a > victim
           /\ \E a \in DOMAIN counter_offers : a < victim /\ a # last.sender


\* what a committed liquidate leaves owed: the debt it stored, and nothing
\* when it closed the loan
OwedAfter(debt, bound) ==
    IF IsSome(bound) /\ IsSome(debt) THEN Unwrap(debt).amount ELSE 0

\* C37: while a loan is bound, the amount owed is changed by liquidate
\* only and never grows; a committed liquidate leaves strictly less owed
\* whenever it paid out or undelegated something, and pays the lender no
\* more than the amount by which it lowers what is owed.  The amount owed
\* never exceeds the collateral amount of the binding terms, so the
\* payouts of all liquidations of one loan add up to no more than that
\* collateral amount.
MonotoneLiquidation ==
    /\ [](IsSome(lender) =>
              /\ IsSome(open_interest)
              /\ Owed <= Unwrap(open_interest).collateral.amount
              /\ Owed >= 0)
    /\ [][(IsSome(lender) /\ IsSome(lender') /\ last'.op # "liquidate")
              => Owed' = Owed]_vars
    /\ [][(IsSome(lender) /\ last'.op = "liquidate") =>
              LET payout == MsgTotal(response'.msgs, "send")
                  undelegated == MsgTotal(response'.msgs, "undelegate")
                  owed_next == OwedAfter(outstanding_debt', lender')
              IN  /\ IsSome(lender') => (IsSome(outstanding_debt') /\ Owed' = owed_next)
                  /\ owed_next <= Owed
                  /\ (payout # 0 \/ undelegated # 0) => owed_next < Owed
                  /\ payout <= Owed - owed_next]_vars

\* a liquidation that paid 1 of the 2 owed and left 1 for the next one
MonotoneLiquidationWitness ==
    /\ last.op = "liquidate"
    /\ IsSome(lender)
    /\ outstanding_debt = Some(Coin(1, BondedDenom))
    /\ MsgTotal(response.msgs, "send") = 1
    /\ MsgTotal(response.msgs, "undelegate") = 0
    /\ \E env \in EnvChoices(now) :
           LET r == liquidate(Store, env, Unwrap(lender))
           IN  /\ r.ok
               /\ MsgTotal(r.msgs, "send") = 1
               /\ r.store.lender = None


\* the refunds a response sends to address a
RefundsTo(msgs, a) == {k \in 1..Len(msgs) : msgs[k].kind = "send" /\ msgs[k].to = a}

\* C38: in every committed propose, cancel, accept, fund or close, an entry
\* that leaves the book is resolved in that same call, either by exactly
\* one refund of exactly its escrowed coin to its proposer, or, in an
\* accept of that proposer, by becoming the binding terms with the proposer
\* as lender and no refund; an entry that stays is unchanged and gets no
\* refund; an address without an entry gets no refund; and an entry enters
\* the book only through a propose of its proposer with exactly its amount
\* attached.  So every deposit is resolved exactly once, and no refund is
\* sent without a live entry or twice for one deposit.
EscrowConservation ==
    [][last'.op \in {"propose", "cancel", "accept", "fund", "close"} =>
          LET msgs == response'.msgs
              before == DOMAIN counter_offers
              after == DOMAIN counter_offers'
              recipients == {msgs[k].to : k \in 1..Len(msgs)}
              principal == IF last'.op = "accept" THEN {last'.who} ELSE {}
          IN  /\ \A k \in 1..Len(msgs) :
                     /\ msgs[k].kind = "send"
                     /\ msgs[k].to \in before
                     /\ msgs[k].coins = <<counter_offers[msgs[k].to].liquidity_coin>>
              /\ Cardinality(recipients) = Len(msgs)
              /\ recipients = (before \ after) \ principal
              /\ \A a \in principal :
                     /\ a \in before \ after
                     /\ lender' = Some(a)
                     /\ open_interest' = Some(counter_offers[a])
              /\ \A a \in before \cap after : counter_offers'[a] = counter_offers[a]
              /\ \A a \in after \ before :
                     /\ last'.op = "propose"
                     /\ last'.sender = a
                     /\ ReceivedFunds(last'.funds, counter_offers'[a].liquidity_coin.denom)
                            = counter_offers'[a].liquidity_coin.amount]_vars

\* an accept on a full book: the accepted proposer is the lender and got
\* no refund, every other proposer got one
EscrowConservationWitness ==
    /\ last.op = "accept"
    /\ lender = Some(last.who)
    /\ Len(response.msgs) = MAX_COUNTER_OFFERS - 1
    /\ RefundsTo(response.msgs, last.who) = {}
    /\ counter_offers = EmptyBook


\* the errors of the consistency checks on the stored debt
ConsistencyFailures ==
    {"Outstanding debt denom mismatch", "No outstanding debt to release", "overflow"}

\* C39: a stored OutstandingDebt has the liquidity denom of the active
\* terms while no lender is bound and the collateral denom of the binding
\* terms while one is bound; no propose, cancel or liquidate fails on a
\* debt denom mismatch, on a missing debt to release or on a debt
\* subtraction underflow.
DebtDenomConsistency ==
    /\ IsSome(outstanding_debt) =>
           /\ IsSome(open_interest)
           /\ Unwrap(outstanding_debt).denom
                  = (IF IsSome(lender) THEN Unwrap(open_interest).collateral.denom
                     ELSE Unwrap(open_interest).liquidity_coin.denom)
    /\ \A s \in Actors :
           /\ \A f \in FundsChoices, p \in ProposalChoices :
                  propose(Store, s, f, p).err.kind \notin ConsistencyFailures
           /\ cancel(Store, s).err.kind \notin ConsistencyFailures
           /\ \A env \in EnvChoices(now) :
                  liquidate(Store, env, s).err.kind \notin ConsistencyFailures

\* a partial liquidation left a debt in the collateral denom, which is not
\* the liquidity denom of the terms, and the next liquidate reads it
DebtDenomConsistencyWitness ==
    /\ last.op = "liquidate"
    /\ IsSome(lender)
    /\ IsSome(outstanding_debt)
    /\ Unwrap(outstanding_debt).denom = Unwrap(open_interest).collateral.denom
    /\ Unwrap(outstanding_debt).denom # Unwrap(open_interest).liquidity_coin.denom
    /\ get_outstanding_amount(Store).err = NoErr
    /\ \E env \in EnvChoices(now) : liquidate(Store, env, owner).ok


\* C40: in every reachable state that stores no open interest, Lender,
\* Expiry and OutstandingDebt are unset and the book is empty; every
\* committed open leaves a position with no lender, no expiry, no debt and
\* no counter-offers.
IdleStateClean ==
    /\ [](~IsSome(open_interest) =>
              /\ lender = None
              /\ open_interest_expiry = None
              /\ outstanding_debt = None
              /\ counter_offers = EmptyBook)
    /\ [][last'.op = "open" =>
             /\ ~IsSome(open_interest)
             /\ open_interest' = last'.interest
             /\ lender' = None
             /\ open_interest_expiry' = None
             /\ outstanding_debt' = None
             /\ counter_offers' = EmptyBook]_vars

\* a funded loan was repaid: nothing of it is left, and the owner can open
\* the next position
IdleStateCleanWitness ==
    /\ last.op = "repay"
    /\ response.msgs # <<>>
    /\ open_interest = None
    /\ lender = None
    /\ open_interest_expiry = None
    /\ \E t \in ValidTerms, env \in EnvChoices(now) :
           LET r == open_interest_execute(Store, env, owner, t)
           IN  /\ r.ok
               /\ r.store.lender = None
               /\ r.store.outstanding_debt = None

====
